---- MODULE Spec2Model ----
(***************************************************************************)
(* Change classification, checklist synthesis and notification splitting   *)
(* of the merge-checklist bot (aiService.js, checklistService.js,          *)
(* githubService.js).                                                      *)
(*                                                                         *)
(* Paths and patterns are sequences of one-character strings.  Checklist   *)
(* items, summaries and error messages are sequences of words.             *)
(* The outcome of a matcher call is "true", "false" or "throws".           *)
(***************************************************************************)
EXTENDS Integers, Sequences, FiniteSets, TLC

VARIABLES mp, pc, projectConfig, files, commits, aiConfig, changeAnalysis,
          checklist, aiRequests, aiReply, aiResult, result, message, chunks, pending, posts,
          event, teamAssignments, mentions, embeds

vars == <<mp, pc, projectConfig, files, commits, aiConfig, changeAnalysis,
          checklist, aiRequests, aiReply, aiResult, result, message, chunks, pending, posts,
          event, teamAssignments, mentions, embeds>>

(***************************************************************************)
(* Bounds of the model.                                                    *)
(***************************************************************************)
MaxLen == 3
MaxPats == 1
MaxRules == 2
MaxFiles == 2
MaxLines == 3

(***************************************************************************)
(* String primitives of JavaScript used by the code.                       *)
(***************************************************************************)
RECURSIVE SeqsUpTo(_, _)
SeqsUpTo(S, n) ==
  IF n = 0 THEN {<<>>}
  ELSE LET prev == SeqsUpTo(S, n - 1)
       IN  prev \cup {Append(s, c) : s \in {t \in prev : Len(t) = n - 1}, c \in S}

\* String.prototype.includes
includes(s, sub) ==
  \E i \in 0..(Len(s) - Len(sub)) : SubSeq(s, i + 1, i + Len(sub)) = sub

\* String.prototype.replace(/c/g, r) for a one-character regular expression
RECURSIVE replaceAll(_, _, _)
replaceAll(s, c, r) ==
  IF s = <<>> THEN <<>>
  ELSE (IF Head(s) = c THEN r ELSE <<Head(s)>>) \o replaceAll(Tail(s), c, r)

\* new RegExp(re) raises SyntaxError: with no ")" in the alphabet every "("
\* opens a group that is never closed
RegExpThrows(re) == includes(re, <<"(">>)

\* does the regular expression match a prefix of s
RECURSIVE matchHere(_, _)
matchHere(re, s) ==
  IF re = <<>> THEN TRUE
  ELSE IF Head(re) = "\\" /\ Len(re) >= 2
       THEN /\ s # <<>>
            /\ Head(s) = re[2]
            /\ matchHere(SubSeq(re, 3, Len(re)), Tail(s))
  ELSE IF Head(re) = "." /\ Len(re) >= 2 /\ re[2] = "*"
       THEN \E k \in 0..Len(s) :
              matchHere(SubSeq(re, 3, Len(re)), SubSeq(s, k + 1, Len(s)))
  ELSE IF Head(re) = "."
       THEN s # <<>> /\ matchHere(Tail(re), Tail(s))
  ELSE /\ s # <<>>
       /\ Head(s) = Head(re)
       /\ matchHere(Tail(re), Tail(s))

\* RegExp.prototype.test: the expression carries no ^ or $, so it is
\* searched for at every position of s
RegExpTest(re, s) ==
  \E i \in 0..Len(s) : matchHere(re, SubSeq(s, i + 1, Len(s)))

Bool3(b) == IF b THEN "true" ELSE "false"

regexPatternDotUnescaped(pattern) ==
  replaceAll(pattern, "*", <<".", "*">>)

\* the translation of a glob pattern shared by the three matchers
regexPattern(pattern) ==
  replaceAll(replaceAll(pattern, ".", <<"\\", ".">>), "*", <<".", "*">>)

\* aiService.matchesPattern
aiService_matchesPattern(path, pattern) ==
  IF includes(pattern, <<"*">>)
  THEN IF RegExpThrows(regexPattern(pattern)) THEN "throws"
       ELSE Bool3(RegExpTest(regexPattern(pattern), path))
  ELSE Bool3(path = pattern \/ includes(path, pattern))

\* the matcher written inline in aiService.generateRuleBasedChecklist
inlineMatcher(filePath, pattern) ==
  IF includes(pattern, <<"*">>)
  THEN IF RegExpThrows(regexPattern(pattern)) THEN "throws"
       ELSE Bool3(RegExpTest(regexPattern(pattern), filePath))
  ELSE Bool3(filePath = pattern \/ includes(filePath, pattern))

\* checklistService.matchesPattern
checklistService_matchesPattern(path, pattern) ==
  IF path = <<>> \/ pattern = <<>> THEN "false"
  ELSE IF includes(pattern, <<"*">>)
  THEN IF RegExpThrows(regexPattern(pattern)) THEN "throws"
       ELSE Bool3(RegExpTest(regexPattern(pattern), path))
  ELSE Bool3(path = pattern \/ includes(path, pattern))

(***************************************************************************)
(* Short-circuit evaluation of Array.prototype.some / every over calls     *)
(* that may throw: the calls are made left to right and the first one that *)
(* decides the answer (or throws) ends the scan.                           *)
(***************************************************************************)
RECURSIVE some3(_)
some3(outcomes) ==
  IF outcomes = <<>> THEN "false"
  ELSE IF Head(outcomes) = "false" THEN some3(Tail(outcomes))
  ELSE Head(outcomes)

RECURSIVE every3(_)
every3(outcomes) ==
  IF outcomes = <<>> THEN "true"
  ELSE IF Head(outcomes) = "true" THEN every3(Tail(outcomes))
  ELSE Head(outcomes)

Range(seq) == {seq[i] : i \in 1..Len(seq)}

\* Array.prototype.slice(0, n)
slice0(seq, n) == SubSeq(seq, 1, IF Len(seq) < n THEN Len(seq) ELSE n)

\* String.prototype.toLowerCase on the words that occur in checklist items
toLowerCaseWord(w) ==
  CASE w = "Verify" -> "verify"
    [] w = "Check" -> "check"
    [] w = "Recheck" -> "recheck"
    [] w = "Security" -> "security"
    [] w = "Review" -> "review"
    [] w = "Run" -> "run"
    [] w = "Update" -> "update"
    [] OTHER -> w

toLowerCase(str) == [i \in 1..Len(str) |-> toLowerCaseWord(str[i])]

\* a keyword is a substring of a lower-case word
wordIncludes(w, keyword) ==
  \/ w = keyword
  \/ w = "recheck" /\ keyword = "check"
  \/ w = "authentication" /\ keyword = "auth"

\* item.includes(keyword) for a keyword that is a single word
itemIncludes(item, keyword) == \E i \in 1..Len(item) : wordIncludes(item[i], keyword)

(***************************************************************************)
(* aiService.analyzeChanges                                                *)
(***************************************************************************)
filePathsOf(fs) == [i \in 1..Len(fs) |-> fs[i].filename]

criticalKeywords == <<"security", "critical", "auth", "database", "migration">>

\* outcome of the scan of the critical patterns for one path (97-108)
criticalScan(path, metadata) ==
  some3([j \in 1..Len(metadata.criticalPaths) |->
           aiService_matchesPattern(path, metadata.criticalPaths[j])])

\* outcome of metadata.lowRiskPaths.some(...) for one path (114-120)
lowRiskScan(path, metadata) ==
  some3([j \in 1..Len(metadata.lowRiskPaths) |->
           aiService_matchesPattern(path, metadata.lowRiskPaths[j])])

\* outcome of filePaths.some(...) for one rule (130)
ruleScan(filePaths, pattern) ==
  some3([i \in 1..Len(filePaths) |-> aiService_matchesPattern(filePaths[i], pattern)])

hasHighRiskChecks(items) ==
  \E i \in 1..Len(items) : \E k \in 1..Len(criticalKeywords) :
    itemIncludes(toLowerCase(items[i]), criticalKeywords[k])

RECURSIVE rulesLoopDowngrade(_, _, _, _)
rulesLoopDowngrade(rules, n, filePaths, isLowRisk0) ==
  IF n = 0 THEN [ruleBasedRiskLevel |-> "low", isLowRisk |-> isLowRisk0, matchedRules |-> {}]
  ELSE LET prev == rulesLoopDowngrade(rules, n - 1, filePaths, isLowRisk0)
           rule == rules[n]
       IN  IF ruleScan(filePaths, rule.pattern) # "true" THEN prev
           ELSE IF hasHighRiskChecks(rule.items)
                THEN [ruleBasedRiskLevel |-> "high", isLowRisk |-> FALSE,
                      matchedRules |-> prev.matchedRules \cup {rule.pattern}]
           ELSE IF Len(rule.items) > 3
                THEN [prev EXCEPT !.ruleBasedRiskLevel = "moderate",
                                  !.matchedRules = @ \cup {rule.pattern}]
           ELSE [prev EXCEPT !.matchedRules = @ \cup {rule.pattern}]

\* the state of the loop over the checklist rules (125-147) after the
\* first n rules: the tier, the low-risk flag and the matched patterns
RECURSIVE rulesLoop(_, _, _, _)
rulesLoop(rules, n, filePaths, isLowRisk0) ==
  IF n = 0 THEN [ruleBasedRiskLevel |-> "low", isLowRisk |-> isLowRisk0, matchedRules |-> {}]
  ELSE LET prev == rulesLoop(rules, n - 1, filePaths, isLowRisk0)
           rule == rules[n]
       IN  IF ruleScan(filePaths, rule.pattern) # "true" THEN prev
           ELSE IF hasHighRiskChecks(rule.items)
                THEN [ruleBasedRiskLevel |-> "high", isLowRisk |-> FALSE,
                      matchedRules |-> prev.matchedRules \cup {rule.pattern}]
           ELSE IF Len(rule.items) > 3 /\ prev.ruleBasedRiskLevel = "low"
                THEN [prev EXCEPT !.ruleBasedRiskLevel = "moderate",
                                  !.matchedRules = @ \cup {rule.pattern}]
           ELSE [prev EXCEPT !.matchedRules = @ \cup {rule.pattern}]

scopeOfAtLeast(nFiles, isCritical, isLowRisk, ruleBasedRiskLevel) ==
  IF nFiles >= 10 \/ isCritical \/ ruleBasedRiskLevel = "high" THEN "significant"
  ELSE IF nFiles >= 3 \/ ~isLowRisk \/ ruleBasedRiskLevel = "moderate" THEN "moderate"
  ELSE "minimal"

scopeOfIgnoresRisk(nFiles, isCritical, isLowRisk, ruleBasedRiskLevel) ==
  IF nFiles > 10 \/ isCritical \/ ruleBasedRiskLevel = "high" THEN "significant"
  ELSE IF nFiles > 3 \/ ruleBasedRiskLevel = "moderate" THEN "moderate"
  ELSE "minimal"

\* the scope decided at lines 149-154
scopeOf(nFiles, isCritical, isLowRisk, ruleBasedRiskLevel) ==
  IF nFiles > 10 \/ isCritical \/ ruleBasedRiskLevel = "high" THEN "significant"
  ELSE IF nFiles > 3 \/ ~isLowRisk \/ ruleBasedRiskLevel = "moderate" THEN "moderate"
  ELSE "minimal"

\* the risk level reported to the collaborator (generateAIChecklist, line 278)
riskLevelLabel(analysis) ==
  IF analysis.isLowRisk THEN "Low"
  ELSE IF analysis.isCritical THEN "Critical"
  ELSE "Moderate"

\* the value of isLowRisk after the low-risk block (111-123)
isLowRiskAfterLowRiskPaths(filePaths, metadata, isCritical) ==
  IF metadata.hasLowRiskPaths
  THEN every3([i \in 1..Len(filePaths) |-> lowRiskScan(filePaths[i], metadata)]) = "true"
  ELSE ~isCritical

\* outcome of filePaths.some(path => config.filePatterns.some(...)) for one
\* team (158-160); reading filePatterns of a team that has none raises
\* TypeError as soon as a path is tested
impactedScan(filePaths, config) ==
  some3([i \in 1..Len(filePaths) |->
           IF "filePatterns" \notin DOMAIN config THEN "throws"
           ELSE some3([k \in 1..Len(config.filePatterns) |->
                         aiService_matchesPattern(filePaths[i], config.filePatterns[k])])])

\* the outcomes of the loop over Object.entries(projectConfig.teams || {})
\* (157-163), team by team
impactedOutcomes(filePaths, config) ==
  IF "teams" \notin DOMAIN config THEN <<>>
  ELSE [t \in 1..Len(config.teams) |-> impactedScan(filePaths, config.teams[t].config)]

\* analysis.impactedSystems when the loop ends
impactedSystems(filePaths, config) ==
  {config.teams[t].team : t \in {u \in 1..Len(impactedOutcomes(filePaths, config)) :
                                   impactedOutcomes(filePaths, config)[u] = "true"}}

analyzeChanges(fs, config) ==
  LET metadata == config.metadata
      filePaths == filePathsOf(fs)
      critical == [i \in 1..Len(filePaths) |->
                     IF metadata.hasCriticalPaths
                     THEN criticalScan(filePaths[i], metadata) ELSE "false"]
      isCritical == "true" \in Range(critical)
      lowRisk == IF metadata.hasLowRiskPaths
                 THEN every3([i \in 1..Len(filePaths) |-> lowRiskScan(filePaths[i], metadata)])
                 ELSE "true"
      rules == IF config.hasChecklistRules THEN config.checklistRules ELSE <<>>
      ruleOutcomes == [n \in 1..Len(rules) |-> ruleScan(filePaths, rules[n].pattern)]
      loop == rulesLoop(rules, Len(rules), filePaths,
                        isLowRiskAfterLowRiskPaths(filePaths, metadata, isCritical))
      threw == \/ "throws" \in Range(critical)
               \/ lowRisk = "throws"
               \/ "throws" \in Range(ruleOutcomes)
               \/ "throws" \in Range(impactedOutcomes(filePaths, config))
  IN  [threw |-> threw,
       impactedSystems |-> impactedSystems(filePaths, config),
       isLowRisk |-> loop.isLowRisk,
       isCritical |-> isCritical,
       scope |-> scopeOf(Len(fs), isCritical, loop.isLowRisk, loop.ruleBasedRiskLevel),
       matchedRules |-> loop.matchedRules,
       ruleBasedRiskLevel |-> loop.ruleBasedRiskLevel]

(***************************************************************************)
(* aiService.generateRuleBasedChecklist and filterChecklistByScope         *)
(***************************************************************************)
pushNewAll(list, items) == list \o items

\* checklist.push(item) for every item not yet included (244-248)
RECURSIVE pushNew(_, _)
pushNew(list, items) ==
  IF items = <<>> THEN list
  ELSE pushNew(IF Head(items) \in Range(list) THEN list ELSE Append(list, Head(items)),
               Tail(items))

RECURSIVE ruleBasedLoop(_, _, _)
ruleBasedLoop(rules, n, filePaths) ==
  IF n = 0 THEN <<>>
  ELSE LET prev == ruleBasedLoop(rules, n - 1, filePaths)
           matches == some3([i \in 1..Len(filePaths) |->
                               inlineMatcher(filePaths[i], rules[n].pattern)])
       IN  IF matches = "true" THEN pushNew(prev, rules[n].items) ELSE prev

generateRuleBasedChecklist(fs, config) ==
  LET rules == IF config.hasChecklistRules THEN config.checklistRules ELSE <<>>
      filePaths == filePathsOf(fs)
  IN  [threw |-> \E n \in 1..Len(rules) :
                   some3([i \in 1..Len(filePaths) |->
                            inlineMatcher(filePaths[i], rules[n].pattern)]) = "throws",
       list |-> ruleBasedLoop(rules, Len(rules), filePaths)]

isEssential(item) ==
  \/ itemIncludes(toLowerCase(item), "verify")
  \/ itemIncludes(toLowerCase(item), "check")

\* checklist.filter(item => ...) of line 177
RECURSIVE filterEssential(_)
filterEssential(list) ==
  IF list = <<>> THEN <<>>
  ELSE (IF isEssential(Head(list)) THEN <<Head(list)>> ELSE <<>>)
       \o filterEssential(Tail(list))

filterChecklistByScopeUncapped(list, analysis) ==
  IF analysis.isLowRisk /\ analysis.scope = "minimal"
  THEN filterEssential(list)
  ELSE IF analysis.scope = "moderate" THEN slice0(list, 5)
  ELSE list

filterChecklistByScope(list, analysis) ==
  IF analysis.isLowRisk /\ analysis.scope = "minimal"
  THEN slice0(filterEssential(list), 2)
  ELSE IF analysis.scope = "moderate" THEN slice0(list, 5)
  ELSE list

(***************************************************************************)
(* aiService.generateAIChecklist: the handling of the collaborator's reply *)
(***************************************************************************)
\* the warning sign U+26A0 U+FE0F that opens every error summary
WarningMarker == "U+26A0"

NullChecklist == [kind |-> "null", items |-> <<>>]
ArrayChecklist(items) == [kind |-> "array", items |-> items]

\* Array.prototype.join with a one-symbol separator
RECURSIVE join(_, _)
join(strs, sep) ==
  IF strs = <<>> THEN <<>>
  ELSE IF Len(strs) = 1 THEN Head(strs)
  ELSE Head(strs) \o <<sep>> \o join(Tail(strs), sep)

\* path.split('.').pop(): the part of the path after its last dot
RECURSIVE lastSegment(_)
lastSegment(path) ==
  IF path = <<>> THEN <<>>
  ELSE IF path[Len(path)] = "." THEN <<>>
  ELSE Append(lastSegment(SubSeq(path, 1, Len(path) - 1)), path[Len(path)])

\* `- ${path} (${type})` of lines 441-445
fileChangeLine(file) ==
  <<"-", " ">> \o file.filename \o <<" ", "(">> \o toLowerCase(lastSegment(file.filename)) \o <<")">>

\* `- ${commit.commit.message}` of lines 447-449
commitLine(commit) == <<"-", " ">> \o commit.commit.message

\* the object returned by the catch block (431-455)
aiErrorResult(errorMessage, fs, cs) ==
  [changeSummary |->
     <<WarningMarker, "Error:">> \o errorMessage
       \o <<"\n", "\n", "Files", "Changed:", "\n">>
       \o join([i \in 1..Len(fs) |-> fileChangeLine(fs[i])], "\n")
       \o <<"\n", "\n", "Commit", "Messages:", "\n">>
       \o join([i \in 1..Len(cs) |-> commitLine(cs[i])], "\n"),
   developerChecklist |-> << <<"Please", "review", "the", "changes", "manually", "and", "ensure", "code", "quality">> >>,
   testerChecklist |-> ArrayChecklist(<< <<"Please", "test", "the", "affected", "functionality", "manually">> >>)]

\* the text of one section of a reply that is not JSON: its lines joined
lineText(line) == (IF line.bullet THEN <<"-", " ">> ELSE <<>>) \o line.text
sectionText(section) == join([i \in 1..Len(section) |-> lineText(section[i])], "\n")

\* section.split('\n').map(trim, strip the bullet).filter(non-empty) (413-416)
RECURSIVE sectionItems(_)
sectionItems(section) ==
  IF section = <<>> THEN <<>>
  ELSE (IF Head(section).text = <<>> THEN <<>> ELSE <<Head(section).text>>)
       \o sectionItems(Tail(section))

\* content.split(/\d\.\s+/g).filter(Boolean) (408)
manualSections(body) ==
  CASE body.type = "blank" -> <<>>
    [] body.type = "prose" ->
         (IF body.pre = <<>> THEN <<>> ELSE <<body.pre>>) \o body.secs
    [] body.type = "json" ->
         << <<[bullet |-> FALSE, text |-> body.text]>> >>

\* the result built in the inner catch block (402-427)
manualResult(body, skipTesterChecklist) ==
  LET sections == manualSections(body)
  IN  [changeSummary |-> IF Len(sections) >= 1 THEN sectionText(sections[1]) ELSE <<>>,
       developerChecklist |-> IF Len(sections) >= 2 /\ sections[2] # <<>>
                              THEN sectionItems(sections[2]) ELSE <<>>,
       testerChecklist |->
         IF skipTesterChecklist THEN NullChecklist
         ELSE ArrayChecklist(IF Len(sections) >= 3 /\ sections[3] # <<>>
                             THEN sectionItems(sections[3]) ELSE <<>>)]

\* the validation of a parsed object (397-401)
validatedResult(value, skipTesterChecklist) ==
  [changeSummary |-> IF value.hasChangeSummary THEN value.changeSummary ELSE <<>>,
   developerChecklist |-> IF value.developerChecklist.kind = "array"
                          THEN value.developerChecklist.items ELSE <<>>,
   testerChecklist |-> IF ~skipTesterChecklist /\ value.testerChecklist.kind # "array"
                       THEN ArrayChecklist(<<>>) ELSE value.testerChecklist]

TypeErrorMessage == <<"Cannot", "read", "properties", "of", "undefined">>

\* JSON.parse succeeds on the cleaned content (385-394): the content is
\* JSON text, bare or inside a ``` fence that the clean-up removes
jsonParses(content) == content.defined /\ content.body.type = "json"

\* reading or setting a property of the parsed value raises TypeError when
\* the value is null or a primitive (class bodies are strict code)
validationThrows(value) == value.type # "object"

generateAIChecklist(reply, fs, cs, config) ==
  LET skip == config.metadata.skipTesterChecklist
  IN  IF reply.failed THEN aiErrorResult(reply.message, fs, cs)
      ELSE IF ~reply.hasChoice
           THEN [changeSummary |-> <<>>, developerChecklist |-> <<>>,
                 testerChecklist |-> IF skip THEN NullChecklist ELSE ArrayChecklist(<<>>)]
      ELSE IF jsonParses(reply.content) /\ ~validationThrows(reply.content.body.value)
           THEN validatedResult(reply.content.body.value, skip)
      ELSE IF ~reply.content.defined
           THEN aiErrorResult(TypeErrorMessage, fs, cs)
      ELSE manualResult(reply.content.body, skip)

(***************************************************************************)
(* aiService.generateChecklist                                             *)
(***************************************************************************)
GenericTesterChecklist ==
  << <<"Test", "the", "affected", "functionality">>,
     <<"Verify", "changes", "work", "as", "expected">>,
     <<"Check", "for", "regressions">> >>

Digits == <<"0", "1", "2", "3", "4", "5", "6", "7", "8", "9">>

\* the decimal digits of a number, as `${files.length}` prints it
RECURSIVE numStr(_)
numStr(n) ==
  IF n < 10 THEN <<Digits[n + 1]>>
  ELSE Append(numStr(n \div 10), Digits[(n % 10) + 1])

aiIsConfigured(cfg) == cfg.apiKey /\ cfg.apiUrl

aiReturnTesterUnchecked(list, ai, config) ==
  [status |-> "returned",
   changeSummary |-> ai.changeSummary,
   developerChecklist |-> list \o ai.developerChecklist,
   testerChecklist |-> ai.testerChecklist]

\* the value returned when the collaborator is configured (39-46)
aiReturn(list, ai, config) ==
  [status |-> "returned",
   changeSummary |-> ai.changeSummary,
   developerChecklist |-> list \o ai.developerChecklist,
   testerChecklist |-> IF config.metadata.skipTesterChecklist
                       THEN NullChecklist ELSE ai.testerChecklist]

\* the value returned when the collaborator is not configured (50-58)
basicReturn(list, fs, config) ==
  [status |-> "returned",
   changeSummary |-> <<"Changes", "to">> \o numStr(Len(fs)) \o <<"files", "in">>
                       \o config.repository,
   developerChecklist |-> list,
   testerChecklist |-> IF config.metadata.skipTesterChecklist
                       THEN NullChecklist ELSE ArrayChecklist(GenericTesterChecklist)]

\* the value returned by the catch block (59-72)
fallbackReturn(errorMessage, fs, config) ==
  LET basicChecklist == generateRuleBasedChecklist(fs, config)
  IN  IF basicChecklist.threw
      THEN [status |-> "threw", changeSummary |-> <<>>, developerChecklist |-> <<>>,
            testerChecklist |-> NullChecklist]
      ELSE [status |-> "returned",
            changeSummary |-> <<WarningMarker, "Error", "generating", "AI", "checklist:">>
                                \o errorMessage,
            developerChecklist |-> basicChecklist.list,
            testerChecklist |-> IF config.metadata.skipTesterChecklist
                                THEN NullChecklist
                                ELSE ArrayChecklist(GenericTesterChecklist)]

SyntaxErrorMessage == <<"Invalid", "regular", "expression">>

(***************************************************************************)
(* DiscordService.splitMessage and sendEmbed.  A text is the sequence of   *)
(* the lengths of its lines; a chunk is a sequence of pieces, each piece   *)
(* the characters from..to of one line, consecutive pieces being joined by *)
(* a newline.                                                              *)
(***************************************************************************)
MESSAGE_CONTENT == 2000
EMBED_DESCRIPTION == 4096

Piece(i, from, to) == [line |-> i, from |-> from, to |-> to]
pieceLen(piece) == piece.to - piece.from + 1

RECURSIVE sumLen(_)
sumLen(pieces) == IF pieces = <<>> THEN 0 ELSE pieceLen(Head(pieces)) + sumLen(Tail(pieces))

\* the length of the string a chunk stands for
chunkLen(pieces) == IF pieces = <<>> THEN 0 ELSE sumLen(pieces) + Len(pieces) - 1

\* the whole text as one chunk
wholeText(lines) == [i \in 1..Len(lines) |-> Piece(i, 1, lines[i])]

lineChunkCut(lines, i) ==
  IF lines[i] = 0 THEN <<>>
  ELSE <<Piece(i, 1, IF lines[i] > MESSAGE_CONTENT THEN MESSAGE_CONTENT ELSE lines[i])>>

\* a line as the value of currentChunk: an empty line is the empty string
lineChunk(lines, i) == IF lines[i] = 0 THEN <<>> ELSE <<Piece(i, 1, lines[i])>>

hardSplitFirstOnly(i, from, len, limit) ==
  <<<<Piece(i, from, IF from + limit - 1 < len THEN from + limit - 1 ELSE len)>>>>

\* chars.splice(0, limit) repeated until the line is used up (304-308)
RECURSIVE hardSplit(_, _, _, _)
hardSplit(i, from, len, limit) ==
  IF from > len THEN <<>>
  ELSE LET to == IF from + limit - 1 < len THEN from + limit - 1 ELSE len
       IN  <<<<Piece(i, from, to)>>>> \o hardSplit(i, to + 1, len, limit)

\* the loop over the lines (297-314) from line i on, then lines 316-318
RECURSIVE splitLoop(_, _, _, _)
splitLoop(lines, i, done, currentChunk) ==
  IF i > Len(lines)
  THEN IF chunkLen(currentChunk) > 0 THEN Append(done, currentChunk) ELSE done
  ELSE IF chunkLen(currentChunk) + 1 + lines[i] > MESSAGE_CONTENT
       THEN IF chunkLen(currentChunk) > 0
            THEN splitLoop(lines, i + 1, Append(done, currentChunk), lineChunk(lines, i))
            ELSE splitLoop(lines, i + 1,
                           done \o hardSplit(i, 1, lines[i], MESSAGE_CONTENT), <<>>)
  ELSE splitLoop(lines, i + 1, done,
                 IF chunkLen(currentChunk) > 0
                 THEN Append(currentChunk, Piece(i, 1, lines[i]))
                 ELSE lineChunk(lines, i))

splitMessage(lines) ==
  IF chunkLen(wholeText(lines)) <= MESSAGE_CONTENT THEN <<wholeText(lines)>>
  ELSE splitLoop(lines, 1, <<>>, <<>>)

\* the descriptions sendEmbed posts, in order (338-369)
embedDescriptions(lines) ==
  IF chunkLen(wholeText(lines)) > EMBED_DESCRIPTION THEN splitMessage(lines)
  ELSE <<wholeText(lines)>>

(***************************************************************************)
(* The file list of a push event (webhookController.js 331-380).           *)
(* The object fileStats is the sequence of its own properties in insertion *)
(* order; a number is a natural number or NaN.                             *)
(***************************************************************************)
\* NaN; every other number of the file statistics is at least 0
NaN == -1

\* the + of two numbers
plus(x, y) == IF x = NaN \/ y = NaN THEN NaN ELSE x + y

\* the property names every object inherits from Object.prototype, as far
\* as they occur as paths
ObjectPrototypeKeys == { <<"constructor">> }

\* commit.stats?.files?.find(f => f.filename === filename) || {} (336)
statsOf(commit, filename) ==
  IF "stats" \in DOMAIN commit /\ \E k \in 1..Len(commit.stats.files) :
                                    commit.stats.files[k].filename = filename
  THEN LET k == CHOOSE k \in 1..Len(commit.stats.files) :
                  /\ commit.stats.files[k].filename = filename
                  /\ \A j \in 1..(k - 1) : commit.stats.files[j].filename # filename
       IN  commit.stats.files[k]
  ELSE [additions |-> 0, deletions |-> 0, changes |-> 0]

\* x || y for a number x that is 0 when the property is missing
orElse(x, y) == IF x = 0 THEN y ELSE x

\* processFiles (333-344)
processFiles(fileList, type, commit) ==
  [i \in 1..Len(fileList) |->
     [filename |-> fileList[i],
      additions |-> orElse(statsOf(commit, fileList[i]).additions,
                           IF type = "added" THEN 1 ELSE 0),
      deletions |-> orElse(statsOf(commit, fileList[i]).deletions,
                           IF type = "removed" THEN 1 ELSE 0),
      changes |-> orElse(statsOf(commit, fileList[i]).changes, 1)]]

\* the reduce over the commits of the payload (332-351)
RECURSIVE payloadFiles(_)
payloadFiles(payloadCommits) ==
  IF payloadCommits = <<>> THEN <<>>
  ELSE LET commit == Head(payloadCommits)
       IN  processFiles(commit.added, "added", commit)
             \o processFiles(commit.modified, "modified", commit)
             \o processFiles(commit.removed, "removed", commit)
             \o payloadFiles(Tail(payloadCommits))

\* stats[file.filename] || {filename, additions: 0, deletions: 0, changes: 0}
\* (355-360): an own property, else an inherited one (a function that has no
\* additions, deletions or changes, and undefined + n is NaN), else the default
existingStats(stats, filename) ==
  IF \E k \in 1..Len(stats) : stats[k].filename = filename
  THEN stats[CHOOSE k \in 1..Len(stats) : stats[k].filename = filename]
  ELSE IF filename \in ObjectPrototypeKeys
       THEN [filename |-> filename, additions |-> NaN, deletions |-> NaN, changes |-> NaN]
  ELSE [filename |-> filename, additions |-> 0, deletions |-> 0, changes |-> 0]

\* stats[file.filename] = {...} (362-367)
setStats(stats, entry) ==
  IF \E k \in 1..Len(stats) : stats[k].filename = entry.filename
  THEN [k \in 1..Len(stats) |->
          IF stats[k].filename = entry.filename THEN entry ELSE stats[k]]
  ELSE Append(stats, entry)

\* the reduce that combines the entries of one path (354-370)
RECURSIVE fileStats(_, _)
fileStats(fs, stats) ==
  IF fs = <<>> THEN stats
  ELSE LET file == Head(fs)
           existing == existingStats(stats, file.filename)
       IN  fileStats(Tail(fs),
                     setStats(stats,
                              [filename |-> file.filename,
                               additions |-> plus(existing.additions, file.additions),
                               deletions |-> plus(existing.deletions, file.deletions),
                               changes |-> plus(existing.changes, file.changes)]))

\* ''.padStart(additions, '+').padStart(totalChanges, '-') (374-375)
changeIndicator(file) ==
  IF plus(file.additions, file.deletions) = NaN THEN <<>>
  ELSE [k \in 1..file.deletions |-> "-"] \o [k \in 1..file.additions |-> "+"]

\* Object.values(fileStats).map(...) (373-380)
uniqueFiles(payloadCommits) ==
  LET stats == fileStats(payloadFiles(payloadCommits), <<>>)
  IN  [k \in 1..Len(stats) |->
         [filename |-> stats[k].filename, additions |-> stats[k].additions,
          deletions |-> stats[k].deletions, changes |-> stats[k].changes,
          changeIndicator |-> changeIndicator(stats[k])]]

(***************************************************************************)
(* assignTeams and getDiscordMentions (checklistService.js 268-344).       *)
(* An object is a record; a property it does not have is not in its        *)
(* DOMAIN. The teams of a policy and the assignments are the entries of    *)
(* an object in insertion order.                                           *)
(***************************************************************************)
\* files.filter(Boolean).map(file => file.filename || file.path) (277-279)
assignTeams_filePaths(fs) == [i \in 1..Len(fs) |-> fs[i].filename]

\* config.filePatterns.some(...) for one path (289-292)
teamPatternsSome(filePath, filePatterns) ==
  some3([k \in 1..Len(filePatterns) |->
           IF filePatterns[k] = <<>> THEN "false"
           ELSE checklistService_matchesPattern(filePath, filePatterns[k])])

\* Array.prototype.filter with the outcomes of its callback
RECURSIVE filterTrue(_, _)
filterTrue(seq, outcomes) ==
  IF seq = <<>> THEN <<>>
  ELSE (IF Head(outcomes) = "true" THEN <<Head(seq)>> ELSE <<>>)
         \o filterTrue(Tail(seq), Tail(outcomes))

teamAssignmentAlways(team, config, matchedFiles) ==
  <<[team |-> team, files |-> matchedFiles,
     reviewers |-> IF "reviewers" \in DOMAIN config THEN config.reviewers ELSE <<>>]>>

\* the entry added for a team, if any (296-302)
teamAssignment(team, config, matchedFiles) ==
  IF Len(matchedFiles) > 0
  THEN <<[team |-> team, files |-> matchedFiles,
          reviewers |-> IF "reviewers" \in DOMAIN config THEN config.reviewers ELSE <<>>]>>
  ELSE <<>>

\* the forEach over the teams of the policy (282-303)
RECURSIVE teamsLoop(_, _, _)
teamsLoop(teams, filePaths, done) ==
  IF teams = <<>> THEN [threw |-> FALSE, assignments |-> done]
  ELSE LET config == Head(teams).config
       IN  IF "filePatterns" \notin DOMAIN config
           THEN teamsLoop(Tail(teams), filePaths, done)
           ELSE LET outcomes == [i \in 1..Len(filePaths) |->
                                   teamPatternsSome(filePaths[i], config.filePatterns)]
                IN  IF \E i \in 1..Len(outcomes) : outcomes[i] = "throws"
                    THEN [threw |-> TRUE, assignments |-> <<>>]
                    ELSE teamsLoop(Tail(teams), filePaths,
                                   done \o teamAssignment(Head(teams).team, config,
                                                          filterTrue(filePaths, outcomes)))

assignTeams(fs, config) ==
  IF "teams" \notin DOMAIN config THEN [threw |-> FALSE, assignments |-> <<>>]
  ELSE teamsLoop(config.teams, assignTeams_filePaths(fs), <<>>)

\* [...new Set(values)]: the first occurrence of every value, in order
RECURSIVE unique(_)
unique(values) ==
  IF values = <<>> THEN <<>>
  ELSE LET front == unique(SubSeq(values, 1, Len(values) - 1))
           last == values[Len(values)]
       IN  IF last \in Range(front) THEN front ELSE Append(front, last)

\* the loop of getDiscordMentions over the assignments (336-340)
RECURSIVE pushDiscordIds(_)
pushDiscordIds(assignments) ==
  IF assignments = <<>> THEN <<>>
  ELSE (IF "discordIds" \in DOMAIN Head(assignments) /\ Len(Head(assignments).discordIds) > 0
        THEN Head(assignments).discordIds ELSE <<>>)
         \o pushDiscordIds(Tail(assignments))

getDiscordMentions(assignments) == unique(pushDiscordIds(assignments))

(***************************************************************************)
(* sendChecklistNotification and sendEmbed (githubService.js 330-533).     *)
(* A text is a sequence of symbols in which "\n" is the line break; the    *)
(* description of an embed is a chunk: pieces of the lines of the text of  *)
(* its section.                                                            *)
(***************************************************************************)
\* the number of characters of a symbol; a symbol "run<n>" stands for a run of
\* n characters without a line break
wordLength(w) ==
  CASE w = "run48" -> 48
    [] w = "run1998" -> 1998
    [] w = "run1999" -> 1999
    [] w = "run4095" -> 4095
    [] w = WarningMarker -> 2
    [] OTHER -> Len(w)

RECURSIVE sumWords(_)
sumWords(str) == IF str = <<>> THEN 0 ELSE wordLength(Head(str)) + sumWords(Tail(str))

\* String.prototype.length of a text without line break, its symbols taken
\* as words separated by one space
length(str) == IF str = <<>> THEN 0 ELSE sumWords(str) + Len(str) - 1

\* text.split('\n')
RECURSIVE splitLines(_)
splitLines(text) ==
  IF \A i \in 1..Len(text) : text[i] # "\n" THEN <<text>>
  ELSE LET k == CHOOSE i \in 1..Len(text) :
                  text[i] = "\n" /\ \A j \in 1..(i - 1) : text[j] # "\n"
       IN  <<SubSeq(text, 1, k - 1)>> \o splitLines(SubSeq(text, k + 1, Len(text)))

\* the lengths of the lines of a text
lineLengths(text) == LET ls == splitLines(text) IN [i \in 1..Len(ls) |-> length(ls[i])]

\* `- ${item}` for every item, joined with line breaks
bulletLines(items) == join([i \in 1..Len(items) |-> <<"-">> \o items[i]], "\n")

\* one mention in the form the delivery service renders (399-402)
formatMention(mention) ==
  IF mention # <<>> /\ Head(mention) = "<@" /\ mention[Len(mention)] = ">" THEN mention
  ELSE IF mention # <<>> /\ Head(mention) = "@" THEN <<"<@&">> \o Tail(mention) \o <<">">>
  ELSE <<"<@">> \o mention \o <<">">>

\* the text posted next to the first embed (397-403)
mentionsContent(ms, repository) ==
  IF Len(ms) > 0
  THEN join([i \in 1..Len(ms) |-> formatMention(ms[i])], " ")
         \o <<"New", "changes", "in">> \o repository \o <<"!">>
  ELSE <<>>

\* the list of changed files (406-414)
fileChanges(fs) ==
  IF Len(fs) > 0 THEN join([i \in 1..Len(fs) |-> fileChangeLine(fs[i])], "\n")
  ELSE <<"-", "No", "files", "changed">>

\* the list of commit messages (417-421)
commitMessages(cs) ==
  IF Len(cs) > 0 THEN join([i \in 1..Len(cs) |-> commitLine(cs[i])], "\n")
  ELSE <<"-", "No", "commit", "messages", "available">>

\* changeSummary.includes(the warning sign)
hasWarning(changeSummary) == \E i \in 1..Len(changeSummary) : changeSummary[i] = WarningMarker

\* the text of the summary section (429-440)
changeSummarySection(cl, fs, cs) ==
  LET lists == <<"\n", "\n", "**Files", "Changed:**", "\n">> \o fileChanges(fs)
                 \o <<"\n", "\n", "**Commit", "Messages:**", "\n">> \o commitMessages(cs)
  IN  IF cl.changeSummary # <<>> /\ ~hasWarning(cl.changeSummary)
      THEN <<"**Change", "Summary:**", "\n">> \o cl.changeSummary \o lists
      ELSE IF cl.changeSummary # <<>> THEN cl.changeSummary
      ELSE <<"**Change", "Summary:**", "\n", "X", "No", "changes", "summary", "available.">>
             \o lists

\* the text of the developer section (443-451)
developerSection(cl) ==
  IF Len(cl.developerChecklist) > 0
  THEN <<"**Developer", "Review", "Checklist:**", "\n">> \o bulletLines(cl.developerChecklist)
  ELSE <<"**Developer", "Review", "Checklist:**", "\n",
         "X", "No", "automated", "checklist", "available.", "\n",
         "-", "Please", "review", "code", "changes", "manually", "\n",
         "-", "Check", "for", "code", "quality", "and", "potential", "issues", "\n",
         "-", "Verify", "implementation", "meets", "requirements">>

\* the tester section of an empty checklist (460-463)
TesterPlaceholder ==
  <<"\n", "\n", "**Tester", "Checklist:**", "\n",
    "X", "No", "automated", "checklist", "available.", "\n",
    "-", "Test", "the", "affected", "functionality", "\n",
    "-", "Verify", "user", "workflows", "\n",
    "-", "Check", "for", "regressions">>

testerSectionNullAsEmpty(cl) ==
  IF Len(cl.testerChecklist.items) > 0
  THEN <<"\n", "\n", "**Tester", "Checklist:**", "\n">>
         \o bulletLines(cl.testerChecklist.items)
  ELSE TesterPlaceholder

\* the text of the tester section, empty when the checklist is null (454-466)
testerSection(cl) ==
  IF cl.testerChecklist.kind # "null"
  THEN IF Len(cl.testerChecklist.items) > 0
       THEN <<"\n", "\n", "**Tester", "Checklist:**", "\n">>
              \o bulletLines(cl.testerChecklist.items)
       ELSE TesterPlaceholder
  ELSE <<>>

NoTitle == <<"undefined">>
Orange == 16753920
Blue == 39423

\* an embed of the array `sections`; the field section is not sent, it names
\* the section the embed was built from
Embed(section, title, description, color) ==
  [section |-> section, title |-> title, description |-> description, color |-> color]

\* the embed of the summary section (472-481)
summaryEmbed(cl, fs, cs, repository) ==
  Embed("summary", <<"New", "merge", "in">> \o repository,
        wholeText(lineLengths(changeSummarySection(cl, fs, cs))),
        IF hasWarning(cl.changeSummary) THEN Orange ELSE Blue)

chunkTitleEvery(title, index) == title \o <<"(continued)">>

\* the title of the chunk at an index of forEach (488, 507)
chunkTitle(title, index) == IF index = 0 THEN title \o <<"(continued)">> ELSE NoTitle

\* the embeds of a checklist section (484-499, 503-518)
checklistEmbeds(section, title, text) ==
  LET lines == lineLengths(text)
  IN  IF chunkLen(wholeText(lines)) > EMBED_DESCRIPTION
      THEN LET cs == splitMessage(lines)
           IN  [k \in 1..Len(cs) |-> Embed(section, chunkTitle(title, k - 1), cs[k], Blue)]
      ELSE <<Embed(section, title, wholeText(lines), Blue)>>

\* the array `sections` when the send loop starts (469-519)
buildSections(cl, fs, cs, repository) ==
  <<summaryEmbed(cl, fs, cs, repository)>>
    \o checklistEmbeds("developer", <<"Developer", "Review", "Checklist">>, developerSection(cl))
    \o (IF testerSection(cl) # <<>>
        THEN checklistEmbeds("tester", <<"Tester", "Checklist">>, testerSection(cl))
        ELSE <<>>)

\* splitMessage applied to the text of a chunk: the pieces of the chunk are
\* its lines
resplit(chunk) ==
  LET sub == splitMessage([k \in 1..Len(chunk) |-> pieceLen(chunk[k])])
      source(piece) == Piece(chunk[piece.line].line,
                             chunk[piece.line].from + piece.from - 1,
                             chunk[piece.line].from + piece.to - 1)
  IN  [c \in 1..Len(sub) |-> [k \in 1..Len(sub[c]) |-> source(sub[c][k])]]

\* the descriptions sendEmbed posts for an embed, in order (338-369)
sendEmbedDescriptions(embed) ==
  IF chunkLen(embed.description) > EMBED_DESCRIPTION THEN resplit(embed.description)
  ELSE <<embed.description>>

embedContentAlways(i, content) == content

\* the content sendChecklistNotification hands to sendEmbed for sections[i] (525)
embedContent(i, content) == IF i = 0 THEN content ELSE <<>>

\* a request to the delivery webhook; acknowledged once axios.post resolved
Post(embed, content) ==
  [section |-> embed.section, title |-> embed.title, description |-> embed.description,
   color |-> embed.color, content |-> content, acknowledged |-> FALSE]

(***************************************************************************)
(* Inputs: policies, changed files, commits, collaborator replies          *)
(***************************************************************************)
PolicyPatterns == { <<"a">>, <<"*", ".">> }
MalformedPattern == <<"*", "(">>
FilePaths == { <<"a">>, <<"b", ".", "a">>, <<"c">> }

Item_VerifyDocs == <<"Verify", "docs">>
Item_ReviewCode == <<"Review", "code">>
Item_CheckLinks == <<"Recheck", "links">>
Item_RunLint == <<"Run", "lint">>
Item_UpdateDocs == <<"Update", "docs">>
Item_Security == <<"Review", "Security", "impact">>
Item_AiExtra == <<"Profile", "the", "hot", "path">>
Item_AiTest == <<"Exercise", "the", "login", "flow">>

Rule_Plain == [pattern |-> <<"a">>, items |-> <<Item_VerifyDocs, Item_ReviewCode>>]
Rule_Star == [pattern |-> <<"*", ".">>,
              items |-> <<Item_CheckLinks, Item_ReviewCode, Item_RunLint, Item_UpdateDocs>>]
Rule_HighRisk == [pattern |-> <<"c">>, items |-> <<Item_Security, Item_RunLint>>]
Rule_Malformed == [pattern |-> MalformedPattern, items |-> <<Item_RunLint>>]

RuleSet == {Rule_Plain, Rule_Star, Rule_HighRisk}
PipelineRuleSet == {Rule_Plain, Rule_Star}
PipelineFilePaths == { <<"a">>, <<"c", ".">> }

Optional(S) == {[has |-> FALSE, list |-> <<>>]} \cup {[has |-> TRUE, list |-> l] : l \in S}

PolicyOf(critical, lowRisk, rules, skip) ==
  [name |-> <<"Project">>,
   repository |-> <<"owner/repo">>,
   metadata |-> [hasCriticalPaths |-> critical.has, criticalPaths |-> critical.list,
                 hasLowRiskPaths |-> lowRisk.has, lowRiskPaths |-> lowRisk.list,
                 skipTesterChecklist |-> skip],
   hasChecklistRules |-> rules.has, checklistRules |-> rules.list]

Policies ==
  {PolicyOf(c, l, r, FALSE) :
     c \in Optional(SeqsUpTo(PolicyPatterns, MaxPats) \cup {<<MalformedPattern>>}),
     l \in Optional(SeqsUpTo(PolicyPatterns, MaxPats)),
     r \in Optional(SeqsUpTo(RuleSet, MaxRules) \cup {<<Rule_Malformed>>})}

PipelinePolicies ==
  {PolicyOf(c, l, r, skip) :
     c \in Optional({ << <<"a">> >>, <<MalformedPattern>> }),
     l \in Optional({ << <<"a">> >> }),
     r \in Optional(SeqsUpTo(PipelineRuleSet, MaxRules) \cup {<<Rule_Malformed>>}),
     skip \in BOOLEAN}

FileListsOver(paths) ==
  {[i \in 1..Len(ps) |-> [filename |-> ps[i]]] : ps \in SeqsUpTo(paths, MaxFiles)}
FileLists == FileListsOver(FilePaths)
PipelineFileLists == FileListsOver(PipelineFilePaths)

CommitLists == { <<>>, <<[commit |-> [message |-> <<"fix", "login">>]]>> }

AiConfigs == [apiKey : BOOLEAN, apiUrl : BOOLEAN]

\* the value of `message?.content || text` (385, 407): undefined, or a string
\* that is blank, prose in numbered sections, or JSON text, possibly fenced
UndefinedContent == [defined |-> FALSE, fenced |-> FALSE, body |-> [type |-> "blank"]]
StringContent(fenced, body) == [defined |-> TRUE, fenced |-> fenced, body |-> body]
JsonBody(value, text) == [type |-> "json", value |-> value, text |-> text]
JsonObject(hasSummary, summary, dev, tester) ==
  [type |-> "object", hasChangeSummary |-> hasSummary, changeSummary |-> summary,
   developerChecklist |-> dev, testerChecklist |-> tester]
Line(bullet, text) == [bullet |-> bullet, text |-> text]

AiSummary == <<"Login", "flow", "reworked">>

FullObject ==
  JsonObject(TRUE, AiSummary, ArrayChecklist(<<Item_ReviewCode, Item_AiExtra>>),
             ArrayChecklist(<<Item_AiTest>>))

\* the bodies a reply with a success status can carry
SuccessContents ==
  { UndefinedContent,
    StringContent(FALSE, [type |-> "blank"]),
    StringContent(FALSE, [type |-> "prose", pre |-> <<>>,
                          secs |-> << <<Line(FALSE, AiSummary)>>,
                                      <<Line(TRUE, Item_ReviewCode), Line(FALSE, <<>>),
                                        Line(TRUE, Item_AiExtra)>>,
                                      <<Line(TRUE, Item_AiTest)>> >>]),
    StringContent(FALSE, [type |-> "prose", pre |-> <<Line(FALSE, <<"Sorry">>)>>,
                          secs |-> <<>>]),
    StringContent(FALSE, JsonBody([type |-> "null"], <<"null">>)),
    StringContent(FALSE, JsonBody([type |-> "number"], <<"5">>)),
    StringContent(FALSE, JsonBody(FullObject, <<"{...}">>)),
    StringContent(TRUE, JsonBody(FullObject, <<"{...}">>)),
    StringContent(FALSE, JsonBody(JsonObject(FALSE, <<>>, [kind |-> "undefined", items |-> <<>>],
                                             [kind |-> "undefined", items |-> <<>>]),
                                  <<"{}">>)),
    StringContent(FALSE, JsonBody(JsonObject(TRUE, AiSummary, [kind |-> "string", items |-> <<>>],
                                             ArrayChecklist(<<Item_AiTest>>)),
                                  <<"{...}">>)) }

SuccessReplies ==
  {[failed |-> FALSE, hasChoice |-> FALSE, content |-> UndefinedContent, message |-> <<>>]}
  \cup {[failed |-> FALSE, hasChoice |-> TRUE, content |-> c, message |-> <<>>] :
          c \in SuccessContents}

FailureReplies ==
  {[failed |-> TRUE, hasChoice |-> FALSE, content |-> UndefinedContent, message |-> m] :
     m \in { <<"timeout">>, <<"Request", "failed", "with", "status", "code", "500">> }}

NoReply == [failed |-> FALSE, hasChoice |-> FALSE, content |-> UndefinedContent,
            message |-> <<"none">>]
NoAnalysis == [threw |-> FALSE, isLowRisk |-> TRUE, isCritical |-> FALSE, scope |-> "none",
               matchedRules |-> {}, ruleBasedRiskLevel |-> "low", impactedSystems |-> {}]
NoResult == [status |-> "none", changeSummary |-> <<>>, developerChecklist |-> <<>>,
             testerChecklist |-> NullChecklist]
NoAiResult == [changeSummary |-> <<>>, developerChecklist |-> <<>>,
               testerChecklist |-> NullChecklist]
NoPolicy == PolicyOf([has |-> FALSE, list |-> <<>>], [has |-> FALSE, list |-> <<>>],
                     [has |-> FALSE, list |-> <<>>], FALSE)

(***************************************************************************)
(* Specification of the pattern matchers: a path and a pattern are drawn,  *)
(* then each of the three matchers is applied to them.                     *)
(***************************************************************************)
PathChars == {"a", "."}
PatternChars == {"a", ".", "*", "("}
ExamplePath == <<"a", "/", "b", ".", "j", "s">>
ExamplePatterns == { <<"*", ".", "j", "s">>, <<"a", "/", "*", ".", "j", "s">> }
MatchPaths == SeqsUpTo(PathChars, MaxLen) \cup {ExamplePath}
MatchPatterns == SeqsUpTo(PatternChars, MaxLen) \cup ExamplePatterns

NoMatch == [path |-> <<>>, pattern |-> <<>>, ai |-> "none", inline |-> "none", cl |-> "none"]

PipelineIdle ==
  /\ pc = "idle"
  /\ projectConfig = NoPolicy
  /\ files = <<>>
  /\ commits = <<>>
  /\ aiConfig = [apiKey |-> FALSE, apiUrl |-> FALSE]
  /\ changeAnalysis = NoAnalysis
  /\ checklist = <<>>
  /\ aiRequests = 0
  /\ aiReply = NoReply
  /\ aiResult = NoAiResult
  /\ result = NoResult

SplitIdle ==
  /\ message = <<>>
  /\ chunks = <<>>
  /\ pending = <<>>
  /\ posts = <<>>

\* no event is being processed and nothing is being delivered
NoEvent == [type |-> "none"]
DeliveryIdle ==
  /\ event = NoEvent
  /\ teamAssignments = <<>>
  /\ mentions = <<>>
  /\ embeds = <<>>

deliveryVars == <<event, teamAssignments, mentions, embeds>>
pipelineVars == <<pc, projectConfig, files, commits, aiConfig, changeAnalysis,
                  checklist, aiRequests, aiReply, aiResult, result>>
splitVars == <<message, chunks, pending, posts>>

InitMatch ==
  /\ \E path \in MatchPaths, pattern \in MatchPatterns :
       mp = [NoMatch EXCEPT !.path = path, !.pattern = pattern]
  /\ PipelineIdle
  /\ SplitIdle
  /\ DeliveryIdle

CallAiMatchesPattern ==
  /\ mp.ai = "none"
  /\ mp' = [mp EXCEPT !.ai = aiService_matchesPattern(mp.path, mp.pattern)]
  /\ UNCHANGED <<pipelineVars, splitVars, deliveryVars>>

CallInlineMatcher ==
  /\ mp.inline = "none"
  /\ mp' = [mp EXCEPT !.inline = inlineMatcher(mp.path, mp.pattern)]
  /\ UNCHANGED <<pipelineVars, splitVars, deliveryVars>>

CallChecklistMatchesPattern ==
  /\ mp.cl = "none"
  /\ mp' = [mp EXCEPT !.cl = checklistService_matchesPattern(mp.path, mp.pattern)]
  /\ UNCHANGED <<pipelineVars, splitVars, deliveryVars>>

NextMatch == CallAiMatchesPattern \/ CallInlineMatcher \/ CallChecklistMatchesPattern

SpecMatch == InitMatch /\ [][NextMatch]_vars

(***************************************************************************)
(* Specification of the classifier: a policy and a file list are drawn,    *)
(* then analyzeChanges is applied to them.                                 *)
(***************************************************************************)
InitClassify ==
  /\ mp = NoMatch
  /\ pc = "classify"
  /\ projectConfig \in Policies
  /\ files \in FileLists
  /\ commits = <<>>
  /\ aiConfig = [apiKey |-> FALSE, apiUrl |-> FALSE]
  /\ changeAnalysis = NoAnalysis
  /\ checklist = <<>>
  /\ aiRequests = 0
  /\ aiReply = NoReply
  /\ aiResult = NoAiResult
  /\ result = NoResult
  /\ SplitIdle
  /\ DeliveryIdle

CallAnalyzeChanges ==
  /\ pc = "classify"
  /\ changeAnalysis' = analyzeChanges(files, projectConfig)
  /\ pc' = IF changeAnalysis'.threw THEN "threw" ELSE "classified"
  /\ UNCHANGED <<deliveryVars, mp, projectConfig, files, commits, aiConfig, checklist, aiRequests,
                 aiReply, aiResult, result, splitVars>>

NextClassify == CallAnalyzeChanges

SpecClassify == InitClassify /\ [][NextClassify]_vars

(***************************************************************************)
(* Specification of the synthesis of the rule-based checklist: the first   *)
(* three calls of generateChecklist (aiService.js 26-32) applied one after *)
(* the other to a policy and a file list.                                  *)
(***************************************************************************)
Item_TagRelease == <<"tag", "release">>
Item_CheckChangelog == <<"Check", "changelog">>
Item_NotifyTeam == <<"notify", "team">>

\* a rule of six items, none with a critical keyword, and a rule of three
Rule_Release == [pattern |-> <<"a">>,
                 items |-> <<Item_RunLint, Item_VerifyDocs, Item_TagRelease,
                             Item_CheckChangelog, Item_NotifyTeam, Item_UpdateDocs>>]
Rule_Docs == [pattern |-> <<"a">>,
              items |-> <<Item_CheckChangelog, Item_CheckLinks, Item_VerifyDocs>>]

SynthesisRuleSet == {Rule_Star, Rule_HighRisk, Rule_Release, Rule_Docs}

SynthesisPolicies ==
  {PolicyOf(c, l, r, FALSE) :
     c \in Optional({ << <<"c">> >> }),
     l \in Optional({ << <<"a">> >> }),
     r \in Optional(SeqsUpTo(SynthesisRuleSet, MaxRules) \cup {<<Rule_Malformed>>})}

\* n files whose paths are the character ch written 1, 2, ... n times
CountedFiles(ch, n) == [i \in 1..n |-> [filename |-> [j \in 1..i |-> ch]]]

\* file lists on both sides of the two thresholds of the scope (149-154)
SynthesisFileLists ==
  FileLists \cup {CountedFiles(ch, n) : ch \in {"a", "b"}, n \in {3, 4, 10, 11}}

InitSynthesis ==
  /\ mp = NoMatch
  /\ pc = "classify"
  /\ projectConfig \in SynthesisPolicies
  /\ files \in SynthesisFileLists
  /\ commits = <<>>
  /\ aiConfig = [apiKey |-> FALSE, apiUrl |-> FALSE]
  /\ changeAnalysis = NoAnalysis
  /\ checklist = <<>>
  /\ aiRequests = 0
  /\ aiReply = NoReply
  /\ aiResult = NoAiResult
  /\ result = NoResult
  /\ SplitIdle
  /\ DeliveryIdle

\* let checklist = this.generateRuleBasedChecklist(files, projectConfig) (29)
CallGenerateRuleBasedChecklist ==
  /\ pc = "classified"
  /\ checklist' = generateRuleBasedChecklist(files, projectConfig).list
  /\ pc' = IF generateRuleBasedChecklist(files, projectConfig).threw
           THEN "threw" ELSE "ruleBased"
  /\ UNCHANGED <<deliveryVars, mp, projectConfig, files, commits, aiConfig, changeAnalysis,
                 aiRequests, aiReply, aiResult, result, splitVars>>

\* checklist = this.filterChecklistByScope(checklist, changeAnalysis) (32)
CallFilterChecklistByScope ==
  /\ pc = "ruleBased"
  /\ checklist' = filterChecklistByScope(checklist, changeAnalysis)
  /\ pc' = "filtered"
  /\ UNCHANGED <<deliveryVars, mp, projectConfig, files, commits, aiConfig, changeAnalysis,
                 aiRequests, aiReply, aiResult, result, splitVars>>

NextSynthesis ==
  \/ CallAnalyzeChanges
  \/ CallGenerateRuleBasedChecklist
  \/ CallFilterChecklistByScope

SpecSynthesis == InitSynthesis /\ [][NextSynthesis]_vars

(***************************************************************************)
(* Specification of generateChecklist: the synchronous part up to the      *)
(* request to the collaborator, then the collaborator's reply.             *)
(***************************************************************************)
Init ==
  /\ mp = NoMatch
  /\ pc = "start"
  /\ projectConfig \in PipelinePolicies
  /\ files \in PipelineFileLists
  /\ commits \in CommitLists
  /\ aiConfig \in AiConfigs
  /\ changeAnalysis = NoAnalysis
  /\ checklist = <<>>
  /\ aiRequests = 0
  /\ aiReply = NoReply
  /\ aiResult = NoAiResult
  /\ result = NoResult
  /\ SplitIdle
  /\ DeliveryIdle

\* lines 26-32 raise an exception, the catch block of lines 59-72 runs
GenerateChecklistCatch ==
  /\ pc = "start"
  /\ analyzeChanges(files, projectConfig).threw
  /\ changeAnalysis' = analyzeChanges(files, projectConfig)
  /\ result' = fallbackReturn(SyntaxErrorMessage, files, projectConfig)
  /\ pc' = IF result'.status = "threw" THEN "rejected" ELSE "returned"
  /\ UNCHANGED <<deliveryVars, mp, projectConfig, files, commits, aiConfig, checklist, aiRequests,
                 aiReply, aiResult, splitVars>>

\* lines 26-36: the collaborator is configured and the request is sent
GenerateChecklistRequest ==
  /\ pc = "start"
  /\ ~analyzeChanges(files, projectConfig).threw
  /\ aiIsConfigured(aiConfig)
  /\ changeAnalysis' = analyzeChanges(files, projectConfig)
  /\ checklist' = filterChecklistByScope(generateRuleBasedChecklist(files, projectConfig).list,
                                         changeAnalysis')
  /\ aiRequests' = aiRequests + 1
  /\ pc' = "awaitAI"
  /\ UNCHANGED <<deliveryVars, mp, projectConfig, files, commits, aiConfig, aiReply, aiResult, result,
                 splitVars>>

\* lines 26-58: the collaborator is not configured
GenerateChecklistBasic ==
  /\ pc = "start"
  /\ ~analyzeChanges(files, projectConfig).threw
  /\ ~aiIsConfigured(aiConfig)
  /\ changeAnalysis' = analyzeChanges(files, projectConfig)
  /\ checklist' = filterChecklistByScope(generateRuleBasedChecklist(files, projectConfig).list,
                                         changeAnalysis')
  /\ result' = basicReturn(checklist', files, projectConfig)
  /\ pc' = "returned"
  /\ UNCHANGED <<deliveryVars, mp, projectConfig, files, commits, aiConfig, aiRequests, aiReply, aiResult,
                 splitVars>>

\* the rest of generateChecklist once generateAIChecklist has returned
Resume(reply) ==
  /\ aiReply' = reply
  /\ aiResult' = generateAIChecklist(reply, files, commits, projectConfig)
  /\ result' = aiReturn(checklist, aiResult', projectConfig)
  /\ pc' = "returned"
  /\ UNCHANGED <<deliveryVars, mp, projectConfig, files, commits, aiConfig, changeAnalysis, checklist,
                 aiRequests, splitVars>>

\* axios.post resolves: the collaborator answered with a success status
AIReplySuccess ==
  /\ pc = "awaitAI"
  /\ \E reply \in SuccessReplies : Resume(reply)

\* axios.post rejects: the collaborator is unreachable or answered an error
AIReplyFailure ==
  /\ pc = "awaitAI"
  /\ \E reply \in FailureReplies : Resume(reply)

Next ==
  \/ GenerateChecklistCatch
  \/ GenerateChecklistRequest
  \/ GenerateChecklistBasic
  \/ AIReplySuccess
  \/ AIReplyFailure

Spec == Init /\ [][Next]_vars

(***************************************************************************)
(* Specification of the splitting: a text is drawn, splitMessage is        *)
(* applied to it, and sendEmbed posts it as the description of an embed.   *)
(***************************************************************************)
LineLengths == {0, 1, 1999, 2000, 2001, 4096, 4097}
Texts == SeqsUpTo(LineLengths, MaxLines) \ {<<>>}

InitSplit ==
  /\ mp = NoMatch
  /\ pc = "split"
  /\ projectConfig = NoPolicy
  /\ files = <<>>
  /\ commits = <<>>
  /\ aiConfig = [apiKey |-> FALSE, apiUrl |-> FALSE]
  /\ changeAnalysis = NoAnalysis
  /\ checklist = <<>>
  /\ aiRequests = 0
  /\ aiReply = NoReply
  /\ aiResult = NoAiResult
  /\ result = NoResult
  /\ message \in Texts
  /\ chunks = <<>>
  /\ pending = <<>>
  /\ posts = <<>>
  /\ DeliveryIdle

CallSplitMessage ==
  /\ pc = "split"
  /\ chunks' = splitMessage(message)
  /\ pc' = "embed"
  /\ UNCHANGED <<deliveryVars, mp, projectConfig, files, commits, aiConfig, changeAnalysis, checklist,
                 aiRequests, aiReply, aiResult, result, message, pending, posts>>

\* sendEmbed up to its first post (332-349 or 366-371)
SendEmbedFirst ==
  /\ pc = "embed"
  /\ LET descriptions == embedDescriptions(message)
     IN  IF descriptions = <<>>
         THEN /\ posts' = Append(posts, [first |-> TRUE, defined |-> FALSE, description |-> <<>>])
              /\ pending' = <<>>
         ELSE /\ posts' = Append(posts, [first |-> TRUE, defined |-> TRUE,
                                         description |-> Head(descriptions)])
              /\ pending' = Tail(descriptions)
  /\ pc' = "followUp"
  /\ UNCHANGED <<deliveryVars, mp, projectConfig, files, commits, aiConfig, changeAnalysis, checklist,
                 aiRequests, aiReply, aiResult, result, message, chunks>>

\* one iteration of the loop over the remaining chunks (352-361)
SendEmbedFollowUp ==
  /\ pc = "followUp"
  /\ pending # <<>>
  /\ posts' = Append(posts, [first |-> FALSE, defined |-> TRUE, description |-> Head(pending)])
  /\ pending' = Tail(pending)
  /\ UNCHANGED <<deliveryVars, mp, pc, projectConfig, files, commits, aiConfig, changeAnalysis, checklist,
                 aiRequests, aiReply, aiResult, result, message, chunks>>

NextSplit == CallSplitMessage \/ SendEmbedFirst \/ SendEmbedFollowUp

SpecSplit == InitSplit /\ [][NextSplit]_vars

(***************************************************************************)
(* Specification of the delivery: a checklist, the lists of files and      *)
(* commits and the mentions are drawn, sendChecklistNotification builds    *)
(* the embeds and posts them one after the other.                          *)
(***************************************************************************)
MaxItems == 3
NotifyItems == { <<"run48">>, <<"run1998">>, <<"run1999">>, <<"run4095">> }
NotifySummaries ==
  { <<>>, AiSummary, <<WarningMarker, "Error:", "timeout">>,
    <<"run4095", "\n", "run48">> }
NotifyTesterChecklists ==
  { NullChecklist, ArrayChecklist(<<>>), ArrayChecklist(<< <<"run48">> >>),
    ArrayChecklist(<< <<"run1998">>, <<"run1999">>, <<"run1998">> >>) }
\* every developer checklist with the plain summary, the short ones with
\* every summary
NotifyChecklists ==
  { cl \in [status : {"returned"}, changeSummary : NotifySummaries,
            developerChecklist : SeqsUpTo(NotifyItems, MaxItems),
            testerChecklist : NotifyTesterChecklists] :
      cl.changeSummary = AiSummary \/ Len(cl.developerChecklist) <= 1 }
NotifyMentions ==
  { <<>>, << <<"@", "frontend-team">>, <<"<@", "user-id", ">">>, <<"1234">> >> }
NotifyFiles == <<[filename |-> <<"b", ".", "a">>]>>
NotifyCommits == <<[commit |-> [message |-> <<"fix", "login">>]]>>

InitNotify ==
  /\ mp = NoMatch
  /\ pc = "notify"
  /\ projectConfig = NoPolicy
  /\ files = NotifyFiles
  /\ commits = NotifyCommits
  /\ aiConfig = [apiKey |-> FALSE, apiUrl |-> FALSE]
  /\ changeAnalysis = NoAnalysis
  /\ checklist = <<>>
  /\ aiRequests = 0
  /\ aiReply = NoReply
  /\ aiResult = NoAiResult
  /\ result \in NotifyChecklists
  /\ SplitIdle
  /\ event \in {[type |-> "notification", webhookUrl |-> u] : u \in BOOLEAN}
  /\ teamAssignments = <<>>
  /\ mentions \in NotifyMentions
  /\ embeds = <<>>

\* sendChecklistNotification up to its send loop (392-519)
SendChecklistNotification ==
  /\ pc = "notify"
  /\ embeds' = buildSections(result, files, commits, projectConfig.repository)
  /\ pc' = "send"
  /\ UNCHANGED <<mp, projectConfig, files, commits, aiConfig, changeAnalysis, checklist,
                 aiRequests, aiReply, aiResult, result, splitVars, event, teamAssignments,
                 mentions>>

\* sendEmbed without a webhook URL (332-336, 372-375): the notification fails
SendEmbedNoUrl ==
  /\ pc = "send"
  /\ ~event.webhookUrl
  /\ pc' = "failed"
  /\ UNCHANGED <<mp, projectConfig, files, commits, aiConfig, changeAnalysis, checklist,
                 aiRequests, aiReply, aiResult, result, splitVars, deliveryVars>>

\* sendEmbed for the next embed of `sections`, up to its first post
\* (522-527, 338-345, 366-369)
SendEmbedMain ==
  /\ pc = "send"
  /\ event.webhookUrl
  /\ pending = <<>>
  /\ embeds # <<>>
  /\ LET embed == Head(embeds)
         descriptions == sendEmbedDescriptions(embed)
         i == Len(buildSections(result, files, commits, projectConfig.repository))
                - Len(embeds)
     IN  /\ posts' = Append(posts,
                            Post([embed EXCEPT !.description = descriptions[1]],
                                 embedContent(i, mentionsContent(mentions,
                                                                 projectConfig.repository))))
         /\ pending' = [k \in 1..(Len(descriptions) - 1) |->
                          Embed(embed.section, NoTitle, descriptions[k + 1], embed.color)]
  /\ embeds' = Tail(embeds)
  /\ pc' = "awaitPost"
  /\ UNCHANGED <<mp, projectConfig, files, commits, aiConfig, changeAnalysis, checklist,
                 aiRequests, aiReply, aiResult, result, message, chunks, event,
                 teamAssignments, mentions>>

\* sendEmbed: the post of the next follow-up embed (352-361)
SendEmbedNext ==
  /\ pc = "send"
  /\ pending # <<>>
  /\ posts' = Append(posts, Post(Head(pending), <<>>))
  /\ pending' = Tail(pending)
  /\ pc' = "awaitPost"
  /\ UNCHANGED <<mp, projectConfig, files, commits, aiConfig, changeAnalysis, checklist,
                 aiRequests, aiReply, aiResult, result, message, chunks, deliveryVars>>

\* axios.post resolves: the delivery webhook acknowledged the post
PostResolved ==
  /\ pc = "awaitPost"
  /\ posts' = [posts EXCEPT ![Len(posts)].acknowledged = TRUE]
  /\ pc' = IF pending = <<>> /\ embeds = <<>> THEN "sent" ELSE "send"
  /\ UNCHANGED <<mp, projectConfig, files, commits, aiConfig, changeAnalysis, checklist,
                 aiRequests, aiReply, aiResult, result, message, chunks, pending,
                 deliveryVars>>

\* axios.post rejects: sendEmbed rethrows and the send loop is left (372-375)
PostRejected ==
  /\ pc = "awaitPost"
  /\ pc' = "failed"
  /\ UNCHANGED <<mp, projectConfig, files, commits, aiConfig, changeAnalysis, checklist,
                 aiRequests, aiReply, aiResult, result, splitVars, deliveryVars>>

NextNotify ==
  \/ SendChecklistNotification
  \/ SendEmbedNoUrl
  \/ SendEmbedMain
  \/ SendEmbedNext
  \/ PostResolved
  \/ PostRejected

SpecNotify == InitNotify /\ [][NextNotify]_vars

(***************************************************************************)
(* Specification of the team assignment: a policy with teams and a file    *)
(* list are drawn, assignTeams is applied to them and getDiscordMentions   *)
(* to its result.                                                          *)
(***************************************************************************)
MaxTeams == 2
Mention_Role == <<"@", "frontend-team">>
Mention_User == <<"<@", "user-id", ">">>
Mention_Id == <<"1234">>

Team_Frontend == [team |-> "frontend",
                  config |-> [discordIds |-> <<Mention_Role, Mention_User>>,
                              filePatterns |-> << <<"a">> >>]]
Team_Backend == [team |-> "backend",
                 config |-> [discordIds |-> <<Mention_User>>,
                             filePatterns |-> << <<>>, <<"*", ".">> >>]]
Team_Devops == [team |-> "devops",
                config |-> [discordIds |-> <<>>, filePatterns |-> << <<"c">> >>]]
Team_Qa == [team |-> "qa", config |-> [discordIds |-> <<Mention_Id>>]]
Team_Security == [team |-> "security",
                  config |-> [discordIds |-> <<Mention_Id>>,
                              filePatterns |-> <<MalformedPattern>>]]

TeamSet == {Team_Frontend, Team_Backend, Team_Devops, Team_Qa}

\* the teams of a policy: every team has its own name
TeamLists ==
  {ts \in SeqsUpTo(TeamSet, MaxTeams) :
     \A i, j \in 1..Len(ts) : i # j => ts[i].team # ts[j].team}
  \cup { <<Team_Security>>, <<Team_Frontend, Team_Security>> }

\* a policy that declares teams and the branches it monitors
WithTeams(policy, teams) ==
  [teams |-> teams, monitoredBranches |-> <<"main">>] @@ policy

TeamPolicies == {NoPolicy} \cup {WithTeams(NoPolicy, ts) : ts \in TeamLists}

InitTeams ==
  /\ mp = NoMatch
  /\ pc = "assignTeams"
  /\ projectConfig \in TeamPolicies
  /\ files \in FileLists
  /\ commits = <<>>
  /\ aiConfig = [apiKey |-> FALSE, apiUrl |-> FALSE]
  /\ changeAnalysis = NoAnalysis
  /\ checklist = <<>>
  /\ aiRequests = 0
  /\ aiReply = NoReply
  /\ aiResult = NoAiResult
  /\ result = NoResult
  /\ SplitIdle
  /\ DeliveryIdle

CallAssignTeams ==
  /\ pc = "assignTeams"
  /\ teamAssignments' = assignTeams(files, projectConfig).assignments
  /\ pc' = IF assignTeams(files, projectConfig).threw THEN "threw" ELSE "assigned"
  /\ UNCHANGED <<mp, projectConfig, files, commits, aiConfig, changeAnalysis, checklist,
                 aiRequests, aiReply, aiResult, result, splitVars, event, mentions, embeds>>

CallGetDiscordMentions ==
  /\ pc = "assigned"
  /\ mentions' = getDiscordMentions(teamAssignments)
  /\ pc' = "mentioned"
  /\ UNCHANGED <<mp, projectConfig, files, commits, aiConfig, changeAnalysis, checklist,
                 aiRequests, aiReply, aiResult, result, splitVars, event, teamAssignments,
                 embeds>>

\* aiService.analyzeChanges applied to the policy and the file list that
\* assignTeams was applied to (generateChecklist 26, processPullRequest 125)
CallAnalyzeChangesOfTeams ==
  /\ pc = "mentioned"
  /\ changeAnalysis' = analyzeChanges(files, projectConfig)
  /\ pc' = IF changeAnalysis'.threw THEN "threw" ELSE "analyzed"
  /\ UNCHANGED <<mp, projectConfig, files, commits, aiConfig, checklist, aiRequests,
                 aiReply, aiResult, result, splitVars, event, teamAssignments, mentions,
                 embeds>>

NextTeams == CallAssignTeams \/ CallGetDiscordMentions \/ CallAnalyzeChangesOfTeams

SpecTeams == InitTeams /\ [][NextTeams]_vars

(***************************************************************************)
(* Specification of the handling of one webhook event: the handlers of the *)
(* controller, processPullRequest, generateChecklist, assignTeams and the  *)
(* delivery. The field sourceControlFailed of the event tells that a call  *)
(* to the source-control service was rejected, the field response is the   *)
(* status answered to the webhook request (0: none yet).                   *)
(***************************************************************************)
MaxCommits == 2

\* findProjectConfig: the policy whose repository is the one of the event
\* (252-260); config.projects holds the one policy projectConfig
findProjectConfigFinds(repoFullName) == projectConfig.repository = repoFullName

isMonitoredAlways(config, branch) == TRUE

\* projectConfig.monitoredBranches.includes(branch)
isMonitored(config, branch) == branch \in Range(config.monitoredBranches)

Commit_AddA == [added |-> << <<"a">> >>, modified |-> <<>>, removed |-> <<>>]
Commit_ModA_AddC == [added |-> << <<"c", ".">> >>, modified |-> << <<"a">> >>,
                     removed |-> <<>>]
Commit_RemA == [added |-> <<>>, modified |-> <<>>, removed |-> << <<"a">> >>]
Commit_Stats ==
  [added |-> <<>>, modified |-> << <<"a">> >>, removed |-> <<>>,
   stats |-> [files |-> <<[filename |-> <<"a">>, additions |-> 3, deletions |-> 0,
                           changes |-> 3]>>]]
Commit_AddConstructor == [added |-> << <<"constructor">> >>, modified |-> <<>>,
                          removed |-> <<>>]
PayloadCommits ==
  {Commit_AddA, Commit_ModA_AddC, Commit_RemA, Commit_Stats, Commit_AddConstructor}
PlainPayload == <<Commit_AddA, Commit_ModA_AddC>>

EventOf(type, handler, action, merged, repository, branch, payloadCommits, webhookUrl) ==
  [type |-> type, handler |-> handler, action |-> action, merged |-> merged,
   repository |-> repository, branch |-> branch, commits |-> payloadCommits,
   webhookUrl |-> webhookUrl, sourceControlFailed |-> FALSE, response |-> 0]

Repositories == { <<"owner/repo">>, <<"other/repo">> }
Branches == {"main", "feature"}

PullRequestEvents ==
  {EventOf("pull_request", "webhookController.js", action, merged, repository, branch,
           <<>>, webhookUrl) :
     action \in {"closed", "opened"}, merged \in BOOLEAN, repository \in Repositories,
     branch \in Branches, webhookUrl \in BOOLEAN}

PushEvents ==
  {EventOf("push", "webhookController.js", "none", FALSE, repository, branch,
           payloadCommits, webhookUrl) :
     repository \in Repositories, branch \in Branches,
     payloadCommits \in SeqsUpTo(PayloadCommits, MaxCommits), webhookUrl \in BOOLEAN}
  \cup
  {EventOf("push", "part_002", "none", FALSE, repository, branch, PlainPayload,
           webhookUrl) :
     repository \in Repositories, branch \in Branches, webhookUrl \in BOOLEAN}

\* the events of a monitored branch of the configured repository
PlainEvents ==
  { EventOf("pull_request", "webhookController.js", "closed", TRUE, <<"owner/repo">>,
            "main", <<>>, TRUE),
    EventOf("push", "webhookController.js", "none", FALSE, <<"owner/repo">>, "main",
            PlainPayload, TRUE),
    EventOf("push", "part_002", "none", FALSE, <<"owner/repo">>, "main", PlainPayload,
            TRUE) }

NoPatterns == [has |-> FALSE, list |-> <<>>]
EventPolicies ==
  {[monitoredBranches |-> <<"main">>] @@ PolicyOf(NoPatterns, NoPatterns, rules, skip) :
     rules \in Optional({<<Rule_Star>>, <<Rule_Malformed>>}), skip \in BOOLEAN}
  \cup
  {WithTeams(PolicyOf(NoPatterns, NoPatterns, rules, skip), teams) :
     rules \in Optional({<<Rule_Star>>, <<Rule_Malformed>>}), skip \in BOOLEAN,
     teams \in { <<Team_Frontend, Team_Backend>>, <<Team_Security>>,
                 <<Team_Frontend, Team_Qa>> }}
PlainPolicy ==
  WithTeams(PolicyOf(NoPatterns, NoPatterns, [has |-> TRUE, list |-> <<Rule_Star>>], FALSE),
            <<Team_Frontend, Team_Backend>>)

EventAiConfigs == {[apiKey |-> b, apiUrl |-> b] : b \in BOOLEAN}

\* the file lists and the commit lists the source-control service answers
\* with; the message of a commit can be longer than an embed description
EventFileLists == { <<>>, <<[filename |-> <<"a">>], [filename |-> <<"c", ".">>]>> }
EventCommitLists ==
  { <<[commit |-> [message |-> <<"fix", "login">>]]>>,
    <<[commit |-> [message |-> <<"run4095", "\n", "run48">>]]>> }

\* String.prototype.split(separator): the parts between the separators
RECURSIVE split(_, _)
split(s, separator) ==
  IF \A i \in 1..Len(s) : s[i] # separator THEN <<s>>
  ELSE LET i == CHOOSE k \in 1..Len(s) :
                  s[k] = separator /\ \A j \in 1..(k - 1) : s[j] # separator
       IN  <<SubSeq(s, 1, i - 1)>> \o split(SubSeq(s, i + 1, Len(s)), separator)

isHexDigit(c) ==
  c \in {"0", "1", "2", "3", "4", "5", "6", "7", "8", "9", "a", "b", "c", "d", "e", "f"}

\* Buffer.from(string, 'hex'): one byte for every two hexadecimal digits, up
\* to the first pair that is not two hexadecimal digits; a last digit without
\* a partner is dropped
RECURSIVE bufferFromHex(_)
bufferFromHex(s) ==
  IF Len(s) >= 2 /\ isHexDigit(s[1]) /\ isHexDigit(s[2])
  THEN << <<s[1], s[2]>> >> \o bufferFromHex(SubSeq(s, 3, Len(s)))
  ELSE <<>>

\* crypto.timingSafeEqual: throws for buffers of different byte lengths
timingSafeEqual(a, b) ==
  IF Len(a) # Len(b) THEN "throws" ELSE Bool3(a = b)

\* hmac.update(payload).digest('hex') (33-34): the digest of the payload
\* under the secret; four hexadecimal digits stand for the 64 of SHA-256
expectedSignature == <<"a", "1", "b", "2">>

\* verifyGitHubSignature (15-41): "true", "false", or "throws"; the header
\* that is absent is the empty string (both are falsy at 21), the hash of a
\* header without "=" is undefined and Buffer.from(undefined, 'hex') throws
verifyGitHubSignature(webhookSecret, signature) ==
  IF ~webhookSecret THEN "true"
  ELSE IF signature = <<>> THEN "false"
  ELSE LET parts == split(signature, "=")
           algorithm == parts[1]
       IN  IF algorithm # <<"sha256">> THEN "false"
           ELSE IF Len(parts) < 2 THEN "throws"
           ELSE timingSafeEqual(bufferFromHex(parts[2]), bufferFromHex(expectedSignature))

\* the headers x-hub-signature-256 of the requests: absent, the signature of
\* the payload, and headers that differ from it in the algorithm, in the
\* length of the hash, in its characters, or in its value
Signature_Valid == <<"sha256", "=">> \o expectedSignature
Signatures ==
  { <<>>,
    Signature_Valid,
    <<"sha1", "=">> \o expectedSignature,
    <<"sha256">>,
    <<"sha256", "=">>,
    <<"sha256", "=", "a", "1">>,
    <<"sha256", "=", "a", "1", "b", "2", "c", "3">>,
    <<"sha256", "=", "a", "1", "b", "z">>,
    <<"sha256", "=", "z", "z", "z", "z">>,
    <<"sha256", "=", "a", "1", "b", "3">>,
    Signature_Valid \o <<"z">>,
    Signature_Valid \o <<"=", "x">> }

\* the request of an event: whether config.github.webhookSecret is set, and
\* the signature header
Signed(ev, webhookSecret, signature) ==
  [webhookSecret |-> webhookSecret, signature |-> signature] @@ ev

\* every policy and collaborator configuration with the plain events, every
\* event with the plain policy and no collaborator; every signature header
\* with the plain events, the plain policy and no collaborator
InitEvent ==
  /\ mp = NoMatch
  /\ pc = "webhook"
  /\ projectConfig \in EventPolicies
  /\ aiConfig \in EventAiConfigs
  /\ \E ev \in PullRequestEvents \cup PushEvents :
       /\ \/ ev \in PlainEvents
          \/ projectConfig = PlainPolicy /\ ~aiIsConfigured(aiConfig)
       /\ \/ event \in {Signed(ev, FALSE, <<>>), Signed(ev, TRUE, Signature_Valid)}
          \/ /\ ev \in PlainEvents
             /\ projectConfig = PlainPolicy
             /\ ~aiIsConfigured(aiConfig)
             /\ event \in {Signed(ev, webhookSecret, signature) :
                              webhookSecret \in BOOLEAN, signature \in Signatures}
  /\ files = <<>>
  /\ commits = <<>>
  /\ changeAnalysis = NoAnalysis
  /\ checklist = <<>>
  /\ aiRequests = 0
  /\ aiReply = NoReply
  /\ aiResult = NoAiResult
  /\ result = NoResult
  /\ SplitIdle
  /\ teamAssignments = <<>>
  /\ mentions = <<>>
  /\ embeds = <<>>

\* handleWebhook up to the switch on the type of the event: the signature is
\* verified when a secret is configured; a request that is not verified is
\* answered 401, an exception is answered 500 by the catch block
\* (part_002 17-35, 53-56; webhookController.js 222-240, 258-261)
VerifyWebhookSignature ==
  /\ pc = "webhook"
  /\ LET isValid == IF event.webhookSecret
                    THEN verifyGitHubSignature(event.webhookSecret, event.signature)
                    ELSE "true"
     IN  /\ pc' = IF isValid = "true" THEN "dispatch" ELSE "responded"
         /\ event' = [event EXCEPT !.response = IF isValid = "true" THEN 0
                                                ELSE IF isValid = "false" THEN 401
                                                ELSE 500]
  /\ UNCHANGED <<mp, projectConfig, files, commits, aiConfig, changeAnalysis, checklist,
                 aiRequests, aiReply, aiResult, result, splitVars, teamAssignments,
                 mentions, embeds>>

\* the location after the lookup of the policy and the test of the branch
\* (checklistService.js 196-210, webhookController.js 309-321)
afterPolicyLookup(next) ==
  IF ~findProjectConfigFinds(event.repository) THEN "unconfigured"
  ELSE IF ~isMonitored(projectConfig, event.branch) THEN "notMonitored"
  ELSE next

\* handleWebhook, handlePullRequestEvent and processPullRequest up to the
\* first call to the source-control service (243-246, 268-294; 184-214)
HandlePullRequestEvent ==
  /\ pc = "dispatch"
  /\ event.type = "pull_request"
  /\ pc' = IF event.action = "closed" /\ event.merged
           THEN afterPolicyLookup("getPullRequest")
           ELSE "ignored"
  /\ UNCHANGED <<mp, projectConfig, files, commits, aiConfig, changeAnalysis, checklist,
                 aiRequests, aiReply, aiResult, result, splitVars, deliveryVars>>

\* githubService.getPullRequest resolves (checklistService.js 214)
GetPullRequest ==
  /\ pc = "getPullRequest"
  /\ pc' = "getPullRequestFiles"
  /\ UNCHANGED <<mp, projectConfig, files, commits, aiConfig, changeAnalysis, checklist,
                 aiRequests, aiReply, aiResult, result, splitVars, deliveryVars>>

\* githubService.getPullRequestFiles resolves (215)
GetPullRequestFiles ==
  /\ pc = "getPullRequestFiles"
  /\ files' \in EventFileLists
  /\ pc' = "getPullRequestCommits"
  /\ UNCHANGED <<mp, projectConfig, commits, aiConfig, changeAnalysis, checklist,
                 aiRequests, aiReply, aiResult, result, splitVars, deliveryVars>>

\* githubService.getPullRequestCommits resolves and generateChecklist is
\* called (216-225)
GetPullRequestCommits ==
  /\ pc = "getPullRequestCommits"
  /\ commits' \in EventCommitLists
  /\ pc' = "start"
  /\ UNCHANGED <<mp, projectConfig, files, aiConfig, changeAnalysis, checklist,
                 aiRequests, aiReply, aiResult, result, splitVars, deliveryVars>>

\* handleWebhook and handlePushEvent up to the call of getRecentCommits
\* (webhookController.js 248-250, 300-329)
HandlePushEvent ==
  /\ pc = "dispatch"
  /\ event.type = "push"
  /\ event.handler = "webhookController.js"
  /\ pc' = afterPolicyLookup("getRecentCommits")
  /\ UNCHANGED <<mp, projectConfig, files, commits, aiConfig, changeAnalysis, checklist,
                 aiRequests, aiReply, aiResult, result, splitVars, deliveryVars>>

\* handleWebhook and handlePushEvent up to the call of compareCommits
\* (part_002 95-112)
HandlePushEventCompare ==
  /\ pc = "dispatch"
  /\ event.type = "push"
  /\ event.handler = "part_002"
  /\ pc' = "compareCommits"
  /\ UNCHANGED <<mp, projectConfig, files, commits, aiConfig, changeAnalysis, checklist,
                 aiRequests, aiReply, aiResult, result, splitVars, deliveryVars>>

\* githubService.compareCommits resolves, then the lookup of the policy and
\* the test of the branch (part_002 112-138)
CompareCommits ==
  /\ pc = "compareCommits"
  /\ files' \in EventFileLists
  /\ pc' = afterPolicyLookup("getRecentCommits")
  /\ UNCHANGED <<mp, projectConfig, commits, aiConfig, changeAnalysis, checklist,
                 aiRequests, aiReply, aiResult, result, splitVars, deliveryVars>>

\* githubService.getRecentCommits resolves, the file list is built from the
\* commits of the payload and generateChecklist is called
\* (webhookController.js 329-389; part_002 138-147)
GetRecentCommits ==
  /\ pc = "getRecentCommits"
  /\ commits' \in EventCommitLists
  /\ files' = IF event.handler = "part_002" THEN files ELSE uniqueFiles(event.commits)
  /\ pc' = "start"
  /\ UNCHANGED <<mp, projectConfig, aiConfig, changeAnalysis, checklist,
                 aiRequests, aiReply, aiResult, result, splitVars, deliveryVars>>

SourceControlRejectsUnnoticed ==
  /\ pc \in {"getPullRequest", "getPullRequestFiles", "getPullRequestCommits",
             "compareCommits", "getRecentCommits"}
  /\ event' = [event EXCEPT !.sourceControlFailed = TRUE]
  /\ pc' = "start"
  /\ UNCHANGED <<mp, projectConfig, files, commits, aiConfig, changeAnalysis, checklist,
                 aiRequests, aiReply, aiResult, result, splitVars, teamAssignments,
                 mentions, embeds>>

\* a call to the source-control service is rejected: the catch block of the
\* handler, or of processPullRequest, is reached (checklistService.js 241-244;
\* webhookController.js 291-293, 406-408; part_002 165-167)
SourceControlRejects ==
  /\ pc \in {"getPullRequest", "getPullRequestFiles", "getPullRequestCommits",
             "compareCommits", "getRecentCommits"}
  /\ event' = [event EXCEPT !.sourceControlFailed = TRUE]
  /\ pc' = "abandoned"
  /\ UNCHANGED <<mp, projectConfig, files, commits, aiConfig, changeAnalysis, checklist,
                 aiRequests, aiReply, aiResult, result, splitVars, teamAssignments,
                 mentions, embeds>>

\* generateChecklist returned: assignTeams, then sendDiscordNotification up
\* to the call of sendChecklistNotification (checklistService.js 228-240,
\* webhookController.js 282-284, 392-405, 415-446)
AssignTeamsAndNotify ==
  /\ pc = "returned"
  /\ teamAssignments' = assignTeams(files, projectConfig).assignments
  /\ mentions' = getDiscordMentions(teamAssignments')
  /\ pc' = IF assignTeams(files, projectConfig).threw THEN "abandoned" ELSE "notify"
  /\ UNCHANGED <<mp, projectConfig, files, commits, aiConfig, changeAnalysis, checklist,
                 aiRequests, aiReply, aiResult, result, splitVars, event, embeds>>

\* the handler has returned, whatever happened: handleWebhook answers the
\* webhook request (257)
Respond ==
  /\ pc \in {"ignored", "unconfigured", "notMonitored", "abandoned", "rejected", "sent",
             "failed"}
  /\ event' = [event EXCEPT !.response = 200]
  /\ pc' = "responded"
  /\ UNCHANGED <<mp, projectConfig, files, commits, aiConfig, changeAnalysis, checklist,
                 aiRequests, aiReply, aiResult, result, splitVars, teamAssignments,
                 mentions, embeds>>

NextEvent ==
  \/ VerifyWebhookSignature
  \/ HandlePullRequestEvent
  \/ GetPullRequest
  \/ GetPullRequestFiles
  \/ GetPullRequestCommits
  \/ HandlePushEvent
  \/ HandlePushEventCompare
  \/ CompareCommits
  \/ GetRecentCommits
  \/ SourceControlRejects
  \/ GenerateChecklistCatch
  \/ GenerateChecklistRequest
  \/ GenerateChecklistBasic
  \/ AIReplySuccess
  \/ AIReplyFailure
  \/ AssignTeamsAndNotify
  \/ SendChecklistNotification
  \/ SendEmbedNoUrl
  \/ SendEmbedMain
  \/ SendEmbedNext
  \/ PostResolved
  \/ PostRejected
  \/ Respond

SpecEvent == InitEvent /\ [][NextEvent]_vars

\* the steps of the program and the answers of the source-control service
\* and of the delivery webhook: every step but the reply of the collaborator.
\* No step of the program ends the wait for that reply: axios.post is called
\* without a timeout (aiService.js 358-372).
EventStep ==
  \/ VerifyWebhookSignature
  \/ HandlePullRequestEvent
  \/ GetPullRequest
  \/ GetPullRequestFiles
  \/ GetPullRequestCommits
  \/ HandlePushEvent
  \/ HandlePushEventCompare
  \/ CompareCommits
  \/ GetRecentCommits
  \/ SourceControlRejects
  \/ GenerateChecklistCatch
  \/ GenerateChecklistRequest
  \/ GenerateChecklistBasic
  \/ AssignTeamsAndNotify
  \/ SendChecklistNotification
  \/ SendEmbedNoUrl
  \/ SendEmbedMain
  \/ SendEmbedNext
  \/ PostResolved
  \/ PostRejected
  \/ Respond


\* the glob rule stated on the pattern itself: "*" stands for any run of
\* characters, every other character (the dot included) for itself
RECURSIVE globWhole(_, _)
globWhole(pattern, s) ==
  IF pattern = <<>> THEN s = <<>>
  ELSE IF Head(pattern) = "*"
       THEN \E k \in 0..Len(s) : globWhole(Tail(pattern), SubSeq(s, k + 1, Len(s)))
  ELSE s # <<>> /\ Head(s) = Head(pattern) /\ globWhole(Tail(pattern), Tail(s))

globSomewhere(pattern, s) ==
  \E i \in 1..(Len(s) + 1) : \E j \in (i - 1)..Len(s) :
    globWhole(pattern, SubSeq(s, i, j))

StarOutcomes == {r \in {mp.ai, mp.inline, mp.cl} : r # "none"}
WellFormedStar == includes(mp.pattern, <<"*">>) /\ ~includes(mp.pattern, <<"(">>)

C4_EmptyNoMatchNoThrow ==
  \A r \in {mp.ai, mp.inline, mp.cl} :
    r # "none" =>
      /\ r # "throws"
      /\ (mp.path = <<>> \/ mp.pattern = <<>>) => r = "false"

(***************************************************************************)
(* Claims about the classifier (SpecClassify)                              *)
(***************************************************************************)
matchesSome(path, patterns) ==
  \E j \in 1..Len(patterns) : aiService_matchesPattern(path, patterns[j]) = "true"

\* C1: a change classified as low risk has every file matching at least one
\* lowRiskPaths entry, whether or not the policy declares lowRiskPaths
C1_LowRiskUniversal ==
  (pc = "classified" /\ changeAnalysis.isLowRisk) =>
    \A i \in 1..Len(files) :
      /\ projectConfig.metadata.hasLowRiskPaths
      /\ matchesSome(files[i].filename, projectConfig.metadata.lowRiskPaths)

\* C2: a file matching a critical pattern makes the change critical, not
\* reported as low risk, and of significant scope
C2_CriticalWins ==
  (/\ pc = "classified"
   /\ projectConfig.metadata.hasCriticalPaths
   /\ \E i \in 1..Len(files) :
        matchesSome(files[i].filename, projectConfig.metadata.criticalPaths)) =>
    /\ changeAnalysis.isCritical
    /\ ~changeAnalysis.isLowRisk
    /\ riskLevelLabel(changeAnalysis) = "Critical"
    /\ changeAnalysis.scope = "significant"

(***************************************************************************)
(* Claims about generateChecklist (Spec)                                   *)
(***************************************************************************)
Skip == projectConfig.metadata.skipTesterChecklist
hasDuplicates(list) == \E i, j \in 1..Len(list) : i # j /\ list[i] = list[j]

\* C5: with skipTesterChecklist set, the tester checklist of every value
\* generateChecklist returns is null, on every path
C5_SkippedTesterIsNull ==
  (pc = "returned" /\ Skip) => result.testerChecklist = NullChecklist

C5_Witness ==
  /\ pc = "returned" /\ Skip
  /\ ~aiReply.failed /\ aiReply.hasChoice
  /\ aiReply.content = StringContent(FALSE, JsonBody(FullObject, <<"{...}">>))
  /\ result.testerChecklist = NullChecklist

\* C6: after a failed request the result carries the warning marker and the
\* cause, exactly the scope-filtered rule-based list, and the generic
\* 3-item tester checklist unless suppressed
C6_FailureFallback ==
  (pc = "returned" /\ aiReply.failed) =>
    /\ result.status = "returned"
    /\ includes(result.changeSummary, <<WarningMarker>>)
    /\ includes(result.changeSummary, aiReply.message)
    /\ result.developerChecklist = checklist
    /\ result.testerChecklist =
         (IF Skip THEN NullChecklist ELSE ArrayChecklist(GenericTesterChecklist))

\* C7: after a successful reply the developer checklist is the filtered
\* rule-based list followed by the collaborator's items, every item that
\* already occurs being suppressed, and the tester checklist is the
\* collaborator's
C7_MergedWithoutDuplicates ==
  (pc = "returned" /\ aiReply # NoReply /\ ~aiReply.failed) =>
    /\ result.developerChecklist = pushNew(checklist, aiResult.developerChecklist)
    /\ ~hasDuplicates(result.developerChecklist)
    /\ ~Skip => result.testerChecklist = aiResult.testerChecklist

\* C8: whatever body a reply with a success status carries, the error
\* fallback is not taken: the summary has no error marker, a missing summary
\* is empty and a missing checklist is an empty sequence
C8_MalformedReplyNormalised ==
  (pc = "returned" /\ aiReply # NoReply /\ ~aiReply.failed) =>
    /\ ~includes(result.changeSummary, <<WarningMarker>>)
    /\ (~aiReply.hasChoice \/ ~aiReply.content.defined
        \/ aiReply.content.body.type = "blank") =>
          /\ aiResult.changeSummary = <<>>
          /\ aiResult.developerChecklist = <<>>
          /\ ~Skip => aiResult.testerChecklist = ArrayChecklist(<<>>)

\* C9: without a configured collaborator no request is sent and the result
\* is "Changes to N files in <repository>", the filtered rule-based list
\* and the generic tester checklist unless suppressed
C9_NotConfigured ==
  (pc \in {"returned", "rejected"} /\ ~(aiConfig.apiKey /\ aiConfig.apiUrl)) =>
    /\ aiRequests = 0
    /\ result.status = "returned"
    /\ result.changeSummary =
         <<"Changes", "to">> \o numStr(Len(files)) \o <<"files", "in", "owner/repo">>
    /\ result.developerChecklist =
         filterChecklistByScope(generateRuleBasedChecklist(files, projectConfig).list,
                                analyzeChanges(files, projectConfig))
    /\ result.testerChecklist =
         (IF Skip THEN NullChecklist ELSE ArrayChecklist(GenericTesterChecklist))

(***************************************************************************)
(* Claims about the splitting (SpecSplit)                                  *)
(***************************************************************************)
\* C10: every chunk of splitMessage has at most 2000 characters and every
\* embed description posted has at most 4096, wherever an over-long line
\* stands in the text
C10_SizeLimits ==
  /\ \A k \in 1..Len(chunks) : chunkLen(chunks[k]) <= 2000
  /\ \A k \in 1..Len(posts) : chunkLen(posts[k].description) <= 4096

(***************************************************************************)
(* Properties of the delivery.                                             *)
(***************************************************************************)
\* the lengths of the lines of the text of a checklist section
sectionLines(section) ==
  lineLengths(IF section = "developer" THEN developerSection(result)
              ELSE testerSection(result))

\* the items a checklist section was built from, and the line of its first item
sectionItemsOf(section) ==
  IF section = "developer" THEN result.developerChecklist ELSE result.testerChecklist.items
firstItemLine(section) == IF section = "developer" THEN 2 ELSE 4

\* the posts made so far for a section, in the order they were issued
postsOf(section) == SelectSeq(posts, LAMBDA post : post.section = section)

RECURSIVE piecesOf(_)
piecesOf(ps) == IF ps = <<>> THEN <<>> ELSE Head(ps).description \o piecesOf(Tail(ps))

\* the pieces of item lines posted so far for a section
itemPieces(section) ==
  SelectSeq(piecesOf(postsOf(section)), LAMBDA piece : piece.line >= firstItemLine(section))

LinesWithinLimit(section) ==
  LET lines == sectionLines(section)
  IN  \A i \in 1..Len(lines) : lines[i] <= EMBED_DESCRIPTION

C12_MentionsFirstOnly ==
  /\ posts # <<>> =>
       posts[1].content = mentionsContent(mentions, projectConfig.repository)
  /\ \A i \in 2..Len(posts) : posts[i].content = <<>>

\* mentions were rendered, the summary section went out in several posts
\* and a post of a later section has been made
C12_Witness ==
  /\ Len(posts) >= 3
  /\ posts[1].content # <<>>
  /\ posts[2].section = "summary"
  /\ posts[Len(posts)].section # "summary"

sectionRank(section) ==
  CASE section = "summary" -> 1 [] section = "developer" -> 2 [] section = "tester" -> 3

\* a piece comes before another in the text of their section
pieceBefore(p, q) == p.line < q.line \/ (p.line = q.line /\ p.to < q.from)

\* C13: the posts of a notification are made section after section (summary,
\* developer, tester), the pieces of a section in the order of its text, a
\* post only once every earlier post is acknowledged, and within a section
\* the first post carries a title and no later post does
C13_OrderedDelivery ==
  /\ \A i \in 1..(Len(posts) - 1) :
       /\ sectionRank(posts[i].section) <= sectionRank(posts[i + 1].section)
       /\ posts[i].acknowledged
  /\ \A section \in {"summary", "developer", "tester"} :
       LET ps == postsOf(section)
           pieces == piecesOf(ps)
       IN  /\ \A k \in 1..(Len(pieces) - 1) : pieceBefore(pieces[k], pieces[k + 1])
           /\ \A k \in 1..Len(ps) : (ps[k].title # NoTitle) <=> (k = 1)

\* a sent notification all three sections of which went out in several posts
C13_Witness ==
  /\ pc = "sent"
  /\ \A section \in {"summary", "developer", "tester"} : Len(postsOf(section)) >= 2

(***************************************************************************)
(* Properties of the team assignment.                                      *)
(***************************************************************************)
\* the teams the policy declares, and the declaration of a team
declaredTeams == IF "teams" \in DOMAIN projectConfig THEN projectConfig.teams ELSE <<>>
declarationOf(team) ==
  (CHOOSE t \in Range(declaredTeams) : t.team = team).config

\* the paths of the file list that match at least one pattern of a team, one
\* for every record of the list, in the order of the list
matchingPaths(config) ==
  SelectSeq(assignTeams_filePaths(files),
            LAMBDA path :
              /\ "filePatterns" \in DOMAIN config
              /\ \E k \in 1..Len(config.filePatterns) :
                   checklistService_matchesPattern(path, config.filePatterns[k]) = "true")

\* C17: every assignment records the recipients its team declares in the
\* policy, and the mentions are the recipients of the assigned teams, each
\* once
C17_RecipientsFromPolicy ==
  pc = "mentioned" =>
    /\ \A i \in 1..Len(teamAssignments) :
         /\ "discordIds" \in DOMAIN teamAssignments[i]
         /\ teamAssignments[i].discordIds
              = declarationOf(teamAssignments[i].team).discordIds
    /\ Range(mentions)
         = UNION {Range(declarationOf(teamAssignments[i].team).discordIds) :
                    i \in 1..Len(teamAssignments)}
    /\ ~hasDuplicates(mentions)

\* C18: when assignTeams returns, a declared team is assigned exactly when
\* some path of the file list matches one of its patterns, no team is
\* assigned twice, and the files of an assignment are the matching paths
C18_AssignedIffMatched ==
  pc \in {"assigned", "mentioned"} =>
    /\ \A t \in Range(declaredTeams) :
         (\E i \in 1..Len(teamAssignments) : teamAssignments[i].team = t.team)
           <=> (matchingPaths(t.config) # <<>>)
    /\ \A i \in 1..Len(teamAssignments) :
         /\ \E t \in Range(declaredTeams) : t.team = teamAssignments[i].team
         /\ teamAssignments[i].files
              = matchingPaths(declarationOf(teamAssignments[i].team))
         /\ \A j \in 1..Len(teamAssignments) :
              teamAssignments[j].team = teamAssignments[i].team => j = i

\* a team is assigned the same path twice for two records of the list while
\* another record matches none of its patterns and another declared team is
\* not assigned
C18_Witness ==
  /\ pc = "assigned"
  /\ Len(teamAssignments) < Len(declaredTeams)
  /\ \E i \in 1..Len(teamAssignments) :
       /\ Len(teamAssignments[i].files) >= 2
       /\ teamAssignments[i].files[1] = teamAssignments[i].files[2]

(***************************************************************************)
(* Properties of the handling of an event.                                 *)
(***************************************************************************)
\* C14: no tester post is made for a policy that skips the tester
\* checklist nor for a null tester checklist; once the notification is sent
\* a tester post has been made exactly when the tester checklist is not
\* null, and for an empty tester checklist the posts hold the placeholder
C14_TesterIffPresent ==
  /\ projectConfig.metadata.skipTesterChecklist => postsOf("tester") = <<>>
  /\ postsOf("tester") # <<>> => result.testerChecklist.kind # "null"
  /\ pc = "sent" =>
       /\ (postsOf("tester") # <<>>) <=> (result.testerChecklist.kind # "null")
       /\ result.testerChecklist = ArrayChecklist(<<>>) =>
            piecesOf(postsOf("tester")) = wholeText(lineLengths(TesterPlaceholder))

\* a notification was sent for an empty tester checklist
C14_Witness ==
  /\ pc = "sent"
  /\ event.type = "pull_request"
  /\ result.testerChecklist = ArrayChecklist(<<>>)
  /\ postsOf("tester") # <<>>

\* the repository of the event has no policy, or its branch is not monitored
NotConfiguredOrMonitored ==
  \/ event.repository # projectConfig.repository
  \/ event.branch \notin Range(projectConfig.monitoredBranches)

\* C15: for an event whose repository has no policy or whose branch is not
\* monitored, no post is made, no request is sent to the collaborator, and
\* the handler is never past the test of the policy and the branch
C15_NoPolicyNoDelivery ==
  NotConfiguredOrMonitored =>
    /\ posts = <<>>
    /\ aiRequests = 0
    /\ pc \in {"webhook", "dispatch", "ignored", "compareCommits", "unconfigured", "notMonitored",
               "abandoned", "responded"}

\* the webhook request of a push to a branch that is not monitored has been
\* answered
C15_Witness ==
  /\ pc = "responded"
  /\ event.type = "push"
  /\ event.repository = projectConfig.repository
  /\ event.branch \notin Range(projectConfig.monitoredBranches)

\* C16: once a call to the source-control service has been rejected, the
\* event is abandoned: no post has been made and none is made, and no
\* request is sent to the collaborator
C16_FetchFailureAbandons ==
  event.type # "none" /\ event.sourceControlFailed =>
    /\ posts = <<>>
    /\ aiRequests = 0
    /\ pc \in {"abandoned", "responded"}

\* the webhook request of a pull request whose fetch was rejected has been
\* answered
C16_Witness ==
  /\ pc = "responded"
  /\ event.type = "pull_request"
  /\ event.sourceControlFailed

\* the sum of a field over the per-commit records of a path
RECURSIVE sumOver(_, _, _)
sumOver(records, filename, field) ==
  IF records = <<>> THEN 0
  ELSE (IF Head(records).filename = filename THEN Head(records)[field] ELSE 0)
         + sumOver(Tail(records), filename, field)

\* C19: the file list handed to generateChecklist and assignTeams for a push
\* holds one record for every path of the payload, and its additions and
\* deletions are the sums over the per-commit records of the path
C19_CoalescedFileList ==
  (event.type = "push" /\ event.handler = "webhookController.js"
     /\ pc \in {"start", "awaitAI", "returned"}) =>
    LET records == payloadFiles(event.commits)
    IN  /\ {files[i].filename : i \in 1..Len(files)}
             = {records[k].filename : k \in 1..Len(records)}
        /\ \A i, j \in 1..Len(files) : files[i].filename = files[j].filename => i = j
        /\ \A i \in 1..Len(files) :
             /\ files[i].additions = sumOver(records, files[i].filename, "additions")
             /\ files[i].deletions = sumOver(records, files[i].filename, "deletions")

\* C20: at most one request is sent to the collaborator for an event, and
\* the processing goes on without the collaborator: while its reply is
\* awaited a step of the program is enabled, so that an event whose request
\* is never replied to still finishes
C20_SingleRequestAndFinish ==
  /\ aiRequests <= 1
  /\ pc = "awaitAI" => ENABLED <<EventStep>>_vars

(***************************************************************************)
(* Properties of the classification and of the rule-based checklist.       *)
(***************************************************************************)
rulesOf(config) == IF config.hasChecklistRules THEN config.checklistRules ELSE <<>>

\* analyzeChanges has returned an analysis
Classified == pc \in {"classified", "ruleBased", "filtered"}

\* some file matches some critical pattern of the policy
criticalMatched ==
  /\ projectConfig.metadata.hasCriticalPaths
  /\ \E i \in 1..Len(files) : \E j \in 1..Len(projectConfig.metadata.criticalPaths) :
       aiService_matchesPattern(files[i].filename, projectConfig.metadata.criticalPaths[j])
         = "true"

\* C22: the scope is significant exactly when there are more than 10 files,
\* a critical pattern matched or the rule-based tier is high; otherwise
\* moderate exactly when there are more than 3 files, the change is not low
\* risk or the tier is moderate; otherwise minimal. More than 10 files are
\* always significant, 4 files or more are never minimal.
C22_ScopeByFactors ==
  Classified =>
    LET n == Len(files)
        significant == n > 10 \/ criticalMatched
                         \/ changeAnalysis.ruleBasedRiskLevel = "high"
        moderate == n > 3 \/ ~changeAnalysis.isLowRisk
                      \/ changeAnalysis.ruleBasedRiskLevel = "moderate"
    IN  /\ changeAnalysis.scope = "significant" <=> significant
        /\ changeAnalysis.scope = "moderate" <=> (~significant /\ moderate)
        /\ changeAnalysis.scope = "minimal" <=> (~significant /\ ~moderate)
        /\ n > 10 => changeAnalysis.scope = "significant"
        /\ n >= 4 => changeAnalysis.scope # "minimal"

\* eleven files that are significant by their number alone, and ten that are not
C22_Witness ==
  /\ pc = "classified"
  /\ Len(files) = 11
  /\ changeAnalysis.scope = "significant"
  /\ ~changeAnalysis.isCritical
  /\ changeAnalysis.ruleBasedRiskLevel = "low"

\* the declared rules that the matcher written in generateRuleBasedChecklist
\* finds matched by some file
inlineMatched(rule) ==
  \E i \in 1..Len(files) : inlineMatcher(files[i].filename, rule.pattern) = "true"

\* the items of the matched rules, rule by rule, with their repetitions
RECURSIVE matchedItems(_)
matchedItems(rules) ==
  IF rules = <<>> THEN <<>>
  ELSE (IF inlineMatched(Head(rules)) THEN Head(rules).items ELSE <<>>)
         \o matchedItems(Tail(rules))

firstIndex(seq, x) == CHOOSE i \in 1..Len(seq) : seq[i] = x /\ \A j \in 1..(i - 1) : seq[j] # x

\* C23: the rule-based checklist holds exactly the items of the rules
\* matched by some file, each once, in the order of their first occurrence
\* rule by rule and item by item; it holds no item of unmatched rules only
C23_RuleBasedChecklist ==
  pc = "ruleBased" =>
    LET all == matchedItems(rulesOf(projectConfig))
    IN  /\ Range(checklist) = Range(all)
        /\ \A i, j \in 1..Len(checklist) : checklist[i] = checklist[j] => i = j
        /\ \A i, j \in 1..Len(checklist) :
             i < j => firstIndex(all, checklist[i]) < firstIndex(all, checklist[j])

\* two matched rules share an item, which the checklist holds once
C23_Witness ==
  /\ pc = "ruleBased"
  /\ Len(checklist) > 0
  /\ Len(matchedItems(rulesOf(projectConfig))) > Len(checklist)

\* the indices of I that have fewer than cap indices of I before them
keptFirst(I, cap) == {i \in I : Cardinality({j \in I : j < i}) < cap}

\* out is the sub-sequence of list at the indices K
isSelection(out, list, K) ==
  /\ Len(out) = Cardinality(K)
  /\ \A i \in K : out[Cardinality({j \in K : j <= i})] = list[i]

withKeyword(list) ==
  {i \in 1..Len(list) :
     \E keyword \in {"verify", "check"} : itemIncludes(toLowerCase(list[i]), keyword)}

\* C24: filterChecklistByScope returns, in their order, the first two items
\* with 'verify' or 'check' for a minimal low-risk change, the first five
\* items for a moderate change and the whole list for a significant one;
\* for a low-risk change of at most 3 files with no matched rule it returns
\* the empty list
C24_ScopeFilter ==
  [][(pc = "ruleBased" /\ pc' = "filtered") =>
       /\ (changeAnalysis.scope = "minimal" /\ changeAnalysis.isLowRisk) =>
            isSelection(checklist', checklist, keptFirst(withKeyword(checklist), 2))
       /\ changeAnalysis.scope = "moderate" =>
            isSelection(checklist', checklist, keptFirst(1..Len(checklist), 5))
       /\ changeAnalysis.scope = "significant" => checklist' = checklist
       /\ (changeAnalysis.isLowRisk /\ Len(files) <= 3
             /\ \A n \in 1..Len(rulesOf(projectConfig)) :
                  ~inlineMatched(rulesOf(projectConfig)[n])) =>
            checklist' = <<>>]_vars

\* a moderate change whose six items were cut to five
C24_Witness ==
  /\ pc = "filtered"
  /\ changeAnalysis.scope = "moderate"
  /\ Len(checklist) = 5
  /\ Len(matchedItems(rulesOf(projectConfig))) = 6

tierRank(tier) == CASE tier = "low" -> 0 [] tier = "moderate" -> 1 [] tier = "high" -> 2

\* the declared rules that analyzeChanges finds matched by some file
scanMatched(rule) ==
  \E i \in 1..Len(files) : aiService_matchesPattern(files[i].filename, rule.pattern) = "true"

hasCriticalKeyword(rule) ==
  \E i \in 1..Len(rule.items) :
    \E keyword \in {"security", "critical", "auth", "database", "migration"} :
      itemIncludes(toLowerCase(rule.items[i]), keyword)

\* the rules of the policy in every order
reorderings(rules) ==
  {[i \in 1..Len(rules) |-> rules[f[i]]] :
     f \in {g \in [1..Len(rules) -> 1..Len(rules)] :
              \A i, j \in 1..Len(rules) : g[i] = g[j] => i = j}}

\* C25: the rule-based tier is high iff a matched rule has an item with a
\* critical keyword, otherwise moderate iff a matched rule has more than 3
\* items, otherwise low; it never decreases from one rule to the next and
\* is the same for every order of the rules
C25_RuleTier ==
  Classified =>
    LET rules == rulesOf(projectConfig)
        matched == {n \in 1..Len(rules) : scanMatched(rules[n])}
        high == \E n \in matched : hasCriticalKeyword(rules[n])
        moderate == \E n \in matched : Len(rules[n].items) > 3
        tierAfter(n) == rulesLoop(rules, n, filePathsOf(files), TRUE).ruleBasedRiskLevel
    IN  /\ changeAnalysis.ruleBasedRiskLevel = "high" <=> high
        /\ changeAnalysis.ruleBasedRiskLevel = "moderate" <=> (~high /\ moderate)
        /\ changeAnalysis.ruleBasedRiskLevel = "low" <=> (~high /\ ~moderate)
        /\ \A n \in 1..Len(rules) : tierRank(tierAfter(n - 1)) <= tierRank(tierAfter(n))
        /\ \A other \in reorderings(rules) :
             analyzeChanges(files, [projectConfig EXCEPT !.checklistRules = other])
               .ruleBasedRiskLevel = changeAnalysis.ruleBasedRiskLevel

\* a rule of more than 3 items is matched after a rule with a critical
\* keyword, and the tier stays high
C25_Witness ==
  /\ pc = "classified"
  /\ rulesOf(projectConfig) = <<Rule_HighRisk, Rule_Star>>
  /\ scanMatched(Rule_HighRisk) /\ scanMatched(Rule_Star)
  /\ changeAnalysis.ruleBasedRiskLevel = "high"

\* C28: a minimal scope implies a low-risk change with no critical match, a
\* low tier and at most 3 files, so every analysis that reaches
\* filterChecklistByScope falls in one of its three cases
C28_MinimalImpliesLowRisk ==
  /\ (Classified /\ changeAnalysis.scope = "minimal") =>
       /\ changeAnalysis.isLowRisk
       /\ ~changeAnalysis.isCritical /\ ~criticalMatched
       /\ changeAnalysis.ruleBasedRiskLevel = "low"
       /\ Len(files) <= 3
  /\ pc \in {"ruleBased", "filtered"} =>
       \/ changeAnalysis.scope = "minimal" /\ changeAnalysis.isLowRisk
       \/ changeAnalysis.scope = "moderate"
       \/ changeAnalysis.scope = "significant"

\* a minimal change of exactly 3 files went through the filter
C28_Witness ==
  /\ pc = "filtered"
  /\ changeAnalysis.scope = "minimal"
  /\ Len(files) = 3

(***************************************************************************)
(* Content kept by the splitting (SpecSplit).                              *)
(***************************************************************************)
RECURSIVE concat(_)
concat(seqs) == IF seqs = <<>> THEN <<>> ELSE Head(seqs) \o concat(Tail(seqs))

hasCharacters(piece) == pieceLen(piece) > 0

\* the pieces stand, in order, for all the characters of the lines: the
\* first piece starts a line, the last one ends a line, every piece goes on
\* where the one before it stops, and the lines left out are empty
coversText(pieces, lines) ==
  LET emptyBetween(a, b) == \A i \in (a + 1)..(b - 1) : lines[i] = 0
  IN  /\ pieces # <<>>
      /\ pieces[1].from = 1 /\ emptyBetween(0, pieces[1].line)
      /\ pieces[Len(pieces)].to = lines[pieces[Len(pieces)].line]
      /\ emptyBetween(pieces[Len(pieces)].line, Len(lines) + 1)
      /\ \A k \in 1..(Len(pieces) - 1) :
           \/ pieces[k + 1].line = pieces[k].line /\ pieces[k + 1].from = pieces[k].to + 1
           \/ /\ pieces[k + 1].line > pieces[k].line
              /\ pieces[k].to = lines[pieces[k].line]
              /\ pieces[k + 1].from = 1
              /\ emptyBetween(pieces[k].line, pieces[k + 1].line)

\* C29: for a message longer than the limit no chunk of splitMessage is
\* empty, and the chunks in order, line breaks left out, are the message
\* with its line breaks left out
C29_NoContentLost ==
  (pc # "split" /\ chunkLen(wholeText(message)) > MESSAGE_CONTENT) =>
    /\ \A k \in 1..Len(chunks) : chunkLen(chunks[k]) > 0
    /\ coversText(SelectSeq(concat(chunks), hasCharacters), message)

\* a message with an empty line and a line that is cut in three
C29_Witness ==
  /\ pc = "embed"
  /\ Len(chunks) >= 4
  /\ \E i \in 1..Len(message) : message[i] = 0
  /\ \E i \in 1..Len(message) : message[i] > 2 * MESSAGE_CONTENT
\* C30: when analyzeChanges and assignTeams both return for a policy and a
\* file list, the impacted systems of the analysis are the teams of the
\* assignments
C30_ImpactedAreAssigned ==
  pc = "analyzed" =>
    changeAnalysis.impactedSystems
      = {teamAssignments[i].team : i \in 1..Len(teamAssignments)}

(***************************************************************************)
(* Properties of the webhook request and of its response.                  *)
(***************************************************************************)
\* the request carries a secret-protected header that is not the signature
\* of the payload: absent, another algorithm, a hash of another length or
\* of other characters, or another value
NotTheSignature ==
  /\ event.type # "none"
  /\ event.webhookSecret
  /\ event.signature # <<"sha256", "=">> \o expectedSignature

\* C26: a request whose header is not the signature of the payload is
\* answered 401 and nothing else is done for it: the handler never passes
\* the verification, no request is sent to the collaborator and no post is
\* made; the verification returns true or false for its header
C26_InvalidSignatureRejected ==
  NotTheSignature =>
    /\ pc \in {"webhook", "responded"}
    /\ pc = "responded" =>
         /\ verifyGitHubSignature(event.webhookSecret, event.signature)
              \in {"true", "false"}
         /\ event.response = 401
    /\ aiRequests = 0
    /\ posts = <<>>

\* the request passes the verification of handleWebhook
SignaturePasses ==
  ~event.webhookSecret
    \/ verifyGitHubSignature(event.webhookSecret, event.signature) = "true"

\* the processing of the event has finished: nothing was to be posted, or
\* every fragment was posted and acknowledged, or a post was rejected and
\* the delivery was abandoned
ProcessingFinished ==
  \/ posts = <<>>
  \/ /\ embeds = <<>>
     /\ pending = <<>>
     /\ \A k \in 1..Len(posts) : posts[k].acknowledged
  \/ ~posts[Len(posts)].acknowledged

\* C27: a request is answered once, at the end of handleWebhook; a request
\* that passes the verification is answered 200 when the processing of its
\* event has finished, whatever failed on the way; and the request gets its
\* answer: while the reply of the collaborator is awaited a step of the
\* program is enabled
C27_OneResponseAfterProcessing ==
  event.type # "none" =>
    /\ event.response # 0 <=> pc = "responded"
    /\ (pc = "responded" /\ SignaturePasses) =>
         /\ event.response = 200
         /\ ProcessingFinished
    /\ (event.response = 0 /\ pc = "awaitAI") => ENABLED <<EventStep>>_vars

(***************************************************************************)
(* Properties of the summary fragment of a notification.                   *)
(***************************************************************************)
\* the checklist was generated by a catch block: the one of generateChecklist
\* (59-72) or the one of generateAIChecklist (431-455), reached by a rejected
\* request or by an exception while the reply is read
GeneratedByCatch ==
  \/ changeAnalysis.threw
  \/ /\ aiRequests > 0
     /\ \/ aiReply.failed
        \/ /\ aiReply.hasChoice
           /\ ~aiReply.content.defined

\* C21: the first fragment posted for an event is the summary fragment; its
\* text holds the change summary (or the placeholder when there is none),
\* the list of the changed files and the commit messages (or their
\* placeholders), and its colour is the error colour exactly when the
\* checklist was generated by a catch block
C21_SummaryFragment ==
  (event.type \in {"pull_request", "push"} /\ posts # <<>>) =>
    LET text == changeSummarySection(result, files, commits)
    IN  /\ posts[1].section = "summary"
        /\ includes(text, IF result.changeSummary # <<>> THEN result.changeSummary
                          ELSE <<"No", "changes", "summary", "available.">>)
        /\ includes(text, fileChanges(files))
        /\ includes(text, commitMessages(commits))
        /\ posts[1].color = Orange <=> GeneratedByCatch

====
